---- MODULE Spec2Model ----
(***************************************************************************)
(* Model of the polygot translation pipeline: the translation memory      *)
(* store, the glossary manager, the chunked translator and the            *)
(* memory/glossary orchestrator (translateWithMemoryAndGlossary).          *)
(*                                                                         *)
(* Strings are sequences of one-character strings, so that trim,           *)
(* toLowerCase, slice, the \b...\b term regex and placeholder splicing     *)
(* are computed character by character as the JavaScript does.             *)
(***************************************************************************)
EXTENDS Integers, Sequences, FiniteSets, TLC

(***************************************************************************)
(* Characters and JavaScript string primitives                             *)
(***************************************************************************)

\* [A-Za-z0-9_]: the characters the regex class \w (and so \b) recognises
LowerLetters ==
    {"a", "b", "c", "d", "e", "f", "g", "h", "i", "j", "k", "l", "m",
     "n", "o", "p", "q", "r", "s", "t", "u", "v", "w", "x", "y", "z"}

UpperLetters ==
    {"A", "B", "C", "D", "E", "F", "G", "H", "I", "J", "K", "L", "M",
     "N", "O", "P", "Q", "R", "S", "T", "U", "V", "W", "X", "Y", "Z"}

\* \w
WordChars ==
    LowerLetters \cup UpperLetters \cup
    {"_", "0", "1", "2", "3", "4", "5", "6", "7", "8", "9"}

IsWordChar(c) == c \in WordChars

\* String.prototype.toLowerCase on one character
LowerChar(c) ==
    CASE c = "A" -> "a"
      [] c = "B" -> "b"
      [] c = "C" -> "c"
      [] c = "D" -> "d"
      [] c = "E" -> "e"
      [] c = "F" -> "f"
      [] c = "G" -> "g"
      [] c = "H" -> "h"
      [] c = "I" -> "i"
      [] c = "J" -> "j"
      [] c = "K" -> "k"
      [] c = "L" -> "l"
      [] c = "M" -> "m"
      [] c = "N" -> "n"
      [] c = "O" -> "o"
      [] c = "P" -> "p"
      [] c = "Q" -> "q"
      [] c = "R" -> "r"
      [] c = "S" -> "s"
      [] c = "T" -> "t"
      [] c = "U" -> "u"
      [] c = "V" -> "v"
      [] c = "W" -> "w"
      [] c = "X" -> "x"
      [] c = "Y" -> "y"
      [] c = "Z" -> "z"
      [] OTHER -> c

toLowerCase(s) == [i \in 1..Len(s) |-> LowerChar(s[i])]

SetMin(S) == CHOOSE x \in S : \A y \in S : x <= y
SetMax(S) == CHOOSE x \in S : \A y \in S : x >= y

\* \s: the whitespace characters in use
Whitespace == {" ", "\n"}

\* String.prototype.trim
trim(s) ==
    LET solid == {i \in 1..Len(s) : s[i] \notin Whitespace}
    IN  IF solid = {} THEN <<>> ELSE SubSeq(s, SetMin(solid), SetMax(solid))

\* String.prototype.slice(from, to) for non-negative 0-based arguments,
\* clamped to the length of the string as JavaScript clamps them
slice(s, from, to) ==
    LET a == IF from > Len(s) THEN Len(s) ELSE from
        b == IF to > Len(s) THEN Len(s) ELSE to
    IN  IF a >= b THEN <<>> ELSE SubSeq(s, a + 1, b)

sliceFrom(s, from) == slice(s, from, Len(s))

\* s has pat as a substring starting at 0-based offset p
StartsAt(s, pat, p) ==
    /\ p + Len(pat) <= Len(s)
    /\ \A k \in 1..Len(pat) : s[p + k] = pat[k]

\* String.prototype.includes
includes(s, pat) == \E p \in 0..Len(s) : StartsAt(s, pat, p)

RECURSIVE expandReplacement(_, _)
\* the text String.prototype.replace inserts for a replacement string: $$ is
\* a dollar sign and $& the matched substring (the other patterns need a
\* quote, a backtick, a digit or < after the dollar sign)
expandReplacement(rep, matched) ==
    IF rep = <<>> THEN <<>>
    ELSE IF Len(rep) >= 2 /\ rep[1] = "$" /\ rep[2] = "$"
         THEN <<"$">> \o expandReplacement(SubSeq(rep, 3, Len(rep)), matched)
    ELSE IF Len(rep) >= 2 /\ rep[1] = "$" /\ rep[2] = "&"
         THEN matched \o expandReplacement(SubSeq(rep, 3, Len(rep)), matched)
    ELSE <<Head(rep)>> \o expandReplacement(Tail(rep), matched)

RECURSIVE replaceFrom(_, _, _, _)
\* s.replace(new RegExp(pat, "g"), rep) scanning from 0-based offset p:
\* non-overlapping matches left to right, the inserted text is not rescanned
replaceFrom(s, pat, rep, p) ==
    IF p >= Len(s) THEN <<>>
    ELSE IF Len(pat) > 0 /\ StartsAt(s, pat, p)
         THEN expandReplacement(rep, pat) \o replaceFrom(s, pat, rep, p + Len(pat))
         ELSE <<s[p + 1]>> \o replaceFrom(s, pat, rep, p + 1)

replaceAll(s, pat, rep) == replaceFrom(s, pat, rep, 0)

RECURSIVE Digits(_)
\* decimal rendering of a natural number inside a template literal
Digits(n) ==
    LET d == <<"0", "1", "2", "3", "4", "5", "6", "7", "8", "9">>
    IN  IF n < 10 THEN <<d[n + 1]>> ELSE Digits(n \div 10) \o <<d[(n % 10) + 1]>>

\* `__GLOSSARY_${placeholderIndex}__`
Placeholder(n) ==
    <<"_", "_", "G", "L", "O", "S", "S", "A", "R", "Y", "_">> \o Digits(n) \o <<"_", "_">>

RECURSIVE SeqToSet(_)
SeqToSet(s) == IF s = <<>> THEN {} ELSE {Head(s)} \cup SeqToSet(Tail(s))

(***************************************************************************)
(* JavaScript Map / plain-object mappings: insertion-ordered sequences of  *)
(* [k, v] pairs with pairwise distinct keys                                *)
(***************************************************************************)

MapKeys(m) == {m[i].k : i \in 1..Len(m)}

MapHas(m, key) == \E i \in 1..Len(m) : m[i].k = key

MapGet(m, key) == m[CHOOSE i \in 1..Len(m) : m[i].k = key].v

\* map.set(key, value) / obj[key] = value: an existing key keeps its place
MapSet(m, key, value) ==
    IF MapHas(m, key)
    THEN [i \in 1..Len(m) |-> IF m[i].k = key THEN [k |-> key, v |-> value] ELSE m[i]]
    ELSE Append(m, [k |-> key, v |-> value])

RECURSIVE MapAssign(_, _)
\* Object.assign(target, source)
MapAssign(target, source) ==
    IF source = <<>> THEN target
    ELSE MapAssign(MapSet(target, Head(source).k, Head(source).v), Tail(source))

(***************************************************************************)
(* GlossaryManager (src/src/translation-memory/glossary.js)                *)
(* terms: the Map key -> entry, an entry being                             *)
(*   [term, caseSensitive, doNotTranslate, translations]                   *)
(* where translations maps a language code to a string.                    *)
(***************************************************************************)

GlossaryGenerateKey(term, caseSensitive) ==
    IF caseSensitive THEN term ELSE toLowerCase(term)

\* get(term, caseSensitive): <<entry>> when found, <<>> for null
GlossaryGet(gterms, term, caseSensitive) ==
    LET key == GlossaryGenerateKey(term, caseSensitive)
    IN  IF MapHas(gterms, key) THEN <<MapGet(gterms, key)>> ELSE <<>>

\* entry.translations[targetLang]; the empty string is falsy like undefined
TranslationFor(entry, targetLang) ==
    IF targetLang \in DOMAIN entry.translations
    THEN entry.translations[targetLang]
    ELSE <<>>

\* add(term, translations, options) on the Map
GlossaryAdd(gterms, term, translations, caseSensitive, doNotTranslate) ==
    LET normalizedTerm == trim(term)
        key == GlossaryGenerateKey(normalizedTerm, caseSensitive)
        entry == [term |-> normalizedTerm,
                  translations |-> translations,
                  caseSensitive |-> caseSensitive,
                  doNotTranslate |-> doNotTranslate]
    IN  MapSet(gterms, key, entry)

\* add(term, translations, options) where options.caseSensitive is "true",
\* "false" or "undefined": the key comes from _generateKey, whose default
\* parameter makes undefined count as true, the flag from `!== false`
GlossaryAddOption(gterms, term, translations, caseSensitive, doNotTranslate) ==
    LET normalizedTerm == trim(term)
        key == GlossaryGenerateKey(normalizedTerm,
                                   IF caseSensitive = "undefined" THEN TRUE
                                   ELSE caseSensitive = "true")
        entry == [term |-> normalizedTerm,
                  translations |-> translations,
                  caseSensitive |-> caseSensitive # "false",
                  doNotTranslate |-> doNotTranslate]
    IN  MapSet(gterms, key, entry)

\* { ...entry.translations, ...updates.translations }
mergeTranslations(old, new) ==
    [l \in DOMAIN old \cup DOMAIN new |-> IF l \in DOMAIN new THEN new[l] ELSE old[l]]

\* update(term, updates, caseSensitive) on the Map; updates.translations is
\* <<>> when absent, updates.doNotTranslate is "undefined" when absent
GlossaryUpdate(gterms, term, translations, doNotTranslate, caseSensitive) ==
    LET key == GlossaryGenerateKey(term, caseSensitive)
        updated(entry) ==
            [entry EXCEPT
               !.translations = IF translations = <<>> THEN @
                                ELSE mergeTranslations(@, translations[1]),
               !.doNotTranslate = IF doNotTranslate = "undefined" THEN @
                                  ELSE doNotTranslate = "true"]
    IN  IF MapHas(gterms, key)
        THEN [terms |-> MapSet(gterms, key, updated(MapGet(gterms, key))), value |-> TRUE]
        ELSE [terms |-> gterms, value |-> FALSE]

\* delete(term, caseSensitive) on the Map
GlossaryDelete(gterms, term, caseSensitive) ==
    LET key == GlossaryGenerateKey(term, caseSensitive)
    IN  [terms |-> SelectSeq(gterms, LAMBDA e : e.k # key),
         value |-> MapHas(gterms, key)]

\* the terms array of glossary.json: Array.from(this.terms.values())
savedTerms(gterms) == [i \in 1..Len(gterms) |-> gterms[i].v]

\* a load() that files every entry under its lower-cased term
loadTermsLowerKeys(file) ==
    MapAssign(<<>>, [i \in 1..Len(file) |->
                        [k |-> toLowerCase(file[i].term), v |-> file[i]]])

\* load() into a fresh GlossaryManager: each entry of the file under the key
\* made from its own term and caseSensitive flag
loadTerms(file) ==
    MapAssign(<<>>, [i \in 1..Len(file) |->
                        [k |-> GlossaryGenerateKey(file[i].term, file[i].caseSensitive),
                         v |-> file[i]]])

\* i is a position 1..Len(text) holding a \w character
WordAt(text, i) == i >= 1 /\ i <= Len(text) /\ IsWordChar(text[i])

\* the assertion \b at 0-based offset p
WordBoundary(text, p) == WordAt(text, p) # WordAt(text, p + 1)

\* \bTERM\b (flag i when the entry is case-insensitive) matches at offset p
TermMatchesAt(text, entry, p) ==
    /\ p + Len(entry.term) <= Len(text)
    /\ \A k \in 1..Len(entry.term) :
          IF entry.caseSensitive
          THEN text[p + k] = entry.term[k]
          ELSE LowerChar(text[p + k]) = LowerChar(entry.term[k])
    /\ WordBoundary(text, p)
    /\ WordBoundary(text, p + Len(entry.term))

RECURSIVE execAll(_, _, _)
\* while ((match = pattern.exec(text)) !== null) found.push(...),
\* the global regex resuming at lastIndex
execAll(text, entry, lastIndex) ==
    LET starts == {p \in lastIndex..Len(text) : TermMatchesAt(text, entry, p)}
    IN  IF starts = {} THEN <<>>
        ELSE LET p == SetMin(starts)
             IN  <<[position |-> p,
                    matchedText |-> slice(text, p, p + Len(entry.term)),
                    entry |-> entry]>>
                 \o execAll(text, entry, p + Len(entry.term))

RECURSIVE matchAllEntries(_, _)
matchAllEntries(gterms, text) ==
    IF gterms = <<>> THEN <<>>
    ELSE execAll(text, Head(gterms).v, 0) \o matchAllEntries(Tail(gterms), text)

\* insert x into an already sorted sequence, after every element that does
\* not have to come after it (Array.prototype.sort is stable)
InsertByPosition(sorted, x, descending) ==
    LET before == {i \in 1..Len(sorted) :
                      IF descending
                      THEN sorted[i].position >= x.position
                      ELSE sorted[i].position <= x.position}
        n == IF before = {} THEN 0 ELSE SetMax(before)
    IN  SubSeq(sorted, 1, n) \o <<x>> \o SubSeq(sorted, n + 1, Len(sorted))

RECURSIVE sortByPosition(_, _)
sortByPosition(found, descending) ==
    IF found = <<>> THEN <<>>
    ELSE InsertByPosition(
             sortByPosition(SubSeq(found, 1, Len(found) - 1), descending),
             found[Len(found)], descending)

\* findInText(text)
findInText(gterms, text) == sortByPosition(matchAllEntries(gterms, text), FALSE)

RECURSIVE replaceFound(_, _, _)
\* the loop over foundTerms of preprocessStrings;
\* st = [str: processedStr, map: glossaryMap, idx: placeholderIndex]
replaceFound(foundTerms, st, targetLang) ==
    IF foundTerms = <<>> THEN st
    ELSE LET found == Head(foundTerms)
             entry == found.entry
         IN  IF entry.doNotTranslate \/ TranslationFor(entry, targetLang) # <<>>
             THEN LET placeholder == Placeholder(st.idx)
                      info == [original |-> found.matchedText,
                               term |-> entry.term,
                               translation |-> IF entry.doNotTranslate
                                               THEN entry.term
                                               ELSE TranslationFor(entry, targetLang),
                               position |-> found.position,
                               caseSensitive |-> entry.caseSensitive]
                  IN  replaceFound(
                          Tail(foundTerms),
                          [str |-> slice(st.str, 0, found.position)
                                   \o placeholder
                                   \o sliceFrom(st.str,
                                                found.position + Len(found.matchedText)),
                           map |-> MapSet(st.map, placeholder, info),
                           idx |-> st.idx + 1],
                          targetLang)
             ELSE replaceFound(Tail(foundTerms), st, targetLang)

RECURSIVE preprocessLoop(_, _, _, _)
\* acc = [processed, glossaryMap, placeholderIndex]
preprocessLoop(gterms, strings, targetLang, acc) ==
    IF strings = <<>> THEN acc
    ELSE LET str == Head(strings)
             foundTerms == sortByPosition(findInText(gterms, str), TRUE)
             st == replaceFound(
                       foundTerms,
                       [str |-> str, map |-> acc.glossaryMap, idx |-> acc.placeholderIndex],
                       targetLang)
         IN  preprocessLoop(gterms, Tail(strings), targetLang,
                            [processed |-> Append(acc.processed, st.str),
                             glossaryMap |-> st.map,
                             placeholderIndex |-> st.idx])

\* preprocessStrings(strings, targetLang) -> { processed, glossaryMap }
preprocessStrings(gterms, strings, targetLang) ==
    LET r == preprocessLoop(gterms, strings, targetLang,
                            [processed |-> <<>>, glossaryMap |-> <<>>, placeholderIndex |-> 0])
    IN  [processed |-> r.processed, glossaryMap |-> r.glossaryMap]

RECURSIVE restorePlaceholders(_, _)
\* the loop over glossaryMap.entries() for one translated string
restorePlaceholders(finalStr, glossaryMap) ==
    IF glossaryMap = <<>> THEN finalStr
    ELSE LET placeholder == Head(glossaryMap).k
             info == Head(glossaryMap).v
         IN  restorePlaceholders(
                 IF includes(finalStr, placeholder)
                 THEN replaceAll(finalStr, placeholder, info.translation)
                 ELSE finalStr,
                 Tail(glossaryMap))

\* postprocessTranslations(translations, glossaryMap)
postprocessTranslations(translations, glossaryMap) ==
    [i \in 1..Len(translations) |->
        [k |-> translations[i].k,
         v |-> restorePlaceholders(translations[i].v, glossaryMap)]]

RECURSIVE filterLoop(_, _, _, _)
filterLoop(gterms, strings, targetLang, acc) ==
    IF strings = <<>> THEN acc
    ELSE LET str == Head(strings)
             trimmed == trim(str)
             exact == GlossaryGet(gterms, trimmed, TRUE)
             found == IF exact # <<>> THEN exact ELSE GlossaryGet(gterms, trimmed, FALSE)
             next ==
                 IF found # <<>>
                 THEN LET entry == found[1]
                      IN  IF entry.doNotTranslate
                          THEN [acc EXCEPT !.skipTranslation =
                                               MapSet(@, str, entry.term)]
                          ELSE IF TranslationFor(entry, targetLang) # <<>>
                               THEN [acc EXCEPT !.skipTranslation =
                                        MapSet(@, str, TranslationFor(entry, targetLang))]
                               ELSE [acc EXCEPT !.needTranslation = Append(@, str)]
                 ELSE [acc EXCEPT !.needTranslation = Append(@, str)]
         IN  filterLoop(gterms, Tail(strings), targetLang, next)

\* filterStrings(strings, targetLang) -> { needTranslation, skipTranslation }
filterStrings(gterms, strings, targetLang) ==
    filterLoop(gterms, strings, targetLang,
               [needTranslation |-> <<>>, skipTranslation |-> <<>>])

\* prepareForTranslation(strings, targetLang)
prepareForTranslation(gterms, strings, targetLang) ==
    LET f == filterStrings(gterms, strings, targetLang)
        p == preprocessStrings(gterms, f.needTranslation, targetLang)
    IN  [stringsForAPI |-> p.processed,
         glossaryMap |-> p.glossaryMap,
         skipTranslation |-> f.skipTranslation,
         originalStrings |-> f.needTranslation]

\* finalizeTranslations(apiTranslations, glossaryMap, skipTranslation, originalStrings)
finalizeTranslations(apiTranslations, glossaryMap, skipTranslation, originalStrings) ==
    MapAssign(postprocessTranslations(apiTranslations, glossaryMap), skipTranslation)

(***************************************************************************)
(* TranslationMemoryStore (src/src/translation-memory/memory-store.js)     *)
(* store = [cache, stats]; cache is the Map key -> entry as a function,    *)
(* stats = [hits, misses, additions].                                      *)
(***************************************************************************)

\* number of distinct values of the truncated digest in the model: the 16
\* hex digits of the source are a finite range too, so two different texts
\* can share a key
HashMod == 3

CharCode(c) ==
    CASE c = "A" -> 1
      [] c = "a" -> 2
      [] c = "b" -> 3
      [] c = " " -> 4
      [] c = "_" -> 5
      [] c = "#" -> 6
      [] OTHER -> 7

RECURSIVE HashFrom(_, _)
HashFrom(s, h) ==
    IF s = <<>> THEN h ELSE HashFrom(Tail(s), (h * 3 + CharCode(Head(s))) % HashMod)

\* createHash("sha256").update(normalized).digest("hex").substring(0, 16)
Hash(s) == HashFrom(s, 0)

\* _generateKey(sourceText, sourceLang, targetLang):
\* `${sourceLang}:${targetLang}:${hash}` over language codes without ':'
MemoryGenerateKey(sourceText, sourceLang, targetLang) ==
    <<sourceLang, targetLang, Hash(trim(sourceText))>>

\* a lookup that trusts the key alone
MemoryHitByKey(cache, sourceText, sourceLang, targetLang) ==
    MemoryGenerateKey(sourceText, sourceLang, targetLang) \in DOMAIN cache

\* the condition under which get() answers from the cache
MemoryHit(cache, sourceText, sourceLang, targetLang) ==
    LET key == MemoryGenerateKey(sourceText, sourceLang, targetLang)
    IN  key \in DOMAIN cache /\ cache[key].sourceText = trim(sourceText)

\* get(sourceText, sourceLang, targetLang):
\* value is <<translation>> on a hit and <<>> for null
MemoryGet(store, sourceText, sourceLang, targetLang) ==
    LET key == MemoryGenerateKey(sourceText, sourceLang, targetLang)
    IN  IF MemoryHit(store.cache, sourceText, sourceLang, targetLang)
        THEN [value |-> <<store.cache[key].translation>>,
              store |-> [cache |-> [store.cache EXCEPT ![key].useCount = @ + 1],
                         stats |-> [store.stats EXCEPT !.hits = @ + 1]]]
        ELSE [value |-> <<>>,
              store |-> [store EXCEPT !.stats.misses = @ + 1]]

\* the auto-save period of set()
SaveEvery == 50

\* cache.set(key, entry) on the function that models the Map
CachePut(cache, key, entry) ==
    [k \in DOMAIN cache \cup {key} |-> IF k = key THEN entry ELSE cache[k]]

\* a set() that stores the translation as handed in
MemorySetUntrimmed(store, sourceText, translation, sourceLang, targetLang, verified) ==
    LET key == MemoryGenerateKey(sourceText, sourceLang, targetLang)
        entry == [sourceText |-> trim(sourceText),
                  translation |-> translation,
                  sourceLang |-> sourceLang,
                  targetLang |-> targetLang,
                  useCount |-> 1,
                  verified |-> verified]
        additions == store.stats.additions + 1
    IN  [store |-> [cache |-> CachePut(store.cache, key, entry),
                    stats |-> [store.stats EXCEPT !.additions = additions]],
         save |-> additions % SaveEvery = 0]

\* a set() that auto-saves at the 50th addition only
MemorySetSavesOnce(store, sourceText, translation, sourceLang, targetLang, verified) ==
    [MemorySetUntrimmed(store, sourceText, trim(translation), sourceLang, targetLang,
                        verified)
     EXCEPT !.save = store.stats.additions + 1 = SaveEvery]

\* set(sourceText, translation, sourceLang, targetLang, options) up to its
\* await: the new store and whether save() is called
MemorySet(store, sourceText, translation, sourceLang, targetLang, verified) ==
    LET key == MemoryGenerateKey(sourceText, sourceLang, targetLang)
        entry == [sourceText |-> trim(sourceText),
                  translation |-> trim(translation),
                  sourceLang |-> sourceLang,
                  targetLang |-> targetLang,
                  useCount |-> 1,
                  verified |-> verified]
        additions == store.stats.additions + 1
    IN  [store |-> [cache |-> CachePut(store.cache, key, entry),
                    stats |-> [store.stats EXCEPT !.additions = additions]],
         save |-> additions % SaveEvery = 0]

\* update(sourceText, newTranslation, sourceLang, targetLang) before its
\* save(): the entry under the key, whatever its sourceText
MemoryUpdate(store, sourceText, newTranslation, sourceLang, targetLang) ==
    LET key == MemoryGenerateKey(sourceText, sourceLang, targetLang)
    IN  IF key \in DOMAIN store.cache
        THEN [store |-> [store EXCEPT !.cache[key].translation = trim(newTranslation)],
              value |-> TRUE]
        ELSE [store |-> store, value |-> FALSE]

\* verify(sourceText, sourceLang, targetLang) before its save()
MemoryVerify(store, sourceText, sourceLang, targetLang) ==
    LET key == MemoryGenerateKey(sourceText, sourceLang, targetLang)
    IN  IF key \in DOMAIN store.cache
        THEN [store |-> [store EXCEPT !.cache[key].verified = TRUE], value |-> TRUE]
        ELSE [store |-> store, value |-> FALSE]

\* delete(sourceText, sourceLang, targetLang) before its save()
MemoryDelete(store, sourceText, sourceLang, targetLang) ==
    LET key == MemoryGenerateKey(sourceText, sourceLang, targetLang)
    IN  IF key \in DOMAIN store.cache
        THEN [store |-> [store EXCEPT
                            !.cache = [k \in DOMAIN store.cache \ {key} |-> store.cache[k]]],
              value |-> TRUE]
        ELSE [store |-> store, value |-> FALSE]

RECURSIVE batchGetLoop(_, _, _, _)
\* acc = [found: Map, missing: list, store]
batchGetLoop(sourceTexts, sourceLang, targetLang, acc) ==
    IF sourceTexts = <<>> THEN acc
    ELSE LET text == Head(sourceTexts)
             got == MemoryGet(acc.store, text, sourceLang, targetLang)
         IN  batchGetLoop(
                 Tail(sourceTexts), sourceLang, targetLang,
                 IF got.value # <<>> /\ got.value[1] # <<>>
                 THEN [found |-> MapSet(acc.found, text, got.value[1]),
                       missing |-> acc.missing,
                       store |-> got.store]
                 ELSE [found |-> acc.found,
                       missing |-> Append(acc.missing, text),
                       store |-> got.store])

\* a batchGet that reports every text as missing, found or not
batchGetKeepAll(store, sourceTexts, sourceLang, targetLang) ==
    [batchGetLoop(sourceTexts, sourceLang, targetLang,
                  [found |-> <<>>, missing |-> <<>>, store |-> store])
     EXCEPT !.missing = sourceTexts]

\* batchGet(sourceTexts, sourceLang, targetLang) -> { found, missing }
batchGet(store, sourceTexts, sourceLang, targetLang) ==
    batchGetLoop(sourceTexts, sourceLang, targetLang,
                 [found |-> <<>>, missing |-> <<>>, store |-> store])

RECURSIVE batchSetLoop(_, _, _, _)
\* acc = [store, saves: the stores handed to save(), in call order]
batchSetLoop(translations, sourceLang, targetLang, acc) ==
    IF translations = <<>> THEN acc
    ELSE LET r == MemorySet(acc.store, Head(translations).k, Head(translations).v,
                            sourceLang, targetLang, FALSE)
         IN  batchSetLoop(Tail(translations), sourceLang, targetLang,
                          [store |-> r.store,
                           saves |-> IF r.save THEN Append(acc.saves, r.store)
                                     ELSE acc.saves])

\* batchSet(translations, sourceLang, targetLang, options)
batchSet(store, translations, sourceLang, targetLang) ==
    batchSetLoop(translations, sourceLang, targetLang,
                 [store |-> store, saves |-> <<>>])

(***************************************************************************)
(* translateStrings (src/src/translator/translator.js)                     *)
(***************************************************************************)

\* the keys of SUPPORTED_LANGUAGES
SUPPORTED_LANGUAGES ==
    {"en", "es", "fr", "de", "it", "pt", "ru", "pl", "nl", "sv", "da", "no",
     "fi", "el", "cs", "ro", "hu", "tr", "zh", "zh-TW", "ja", "ko", "hi", "th",
     "vi", "id", "ar", "he", "fa", "uk", "bn"}

RECURSIVE dedupe(_, _)
\* [...new Set(list)]: first occurrences, in order
dedupe(list, seen) ==
    IF list = <<>> THEN <<>>
    ELSE IF Head(list) \in seen THEN dedupe(Tail(list), seen)
         ELSE <<Head(list)>> \o dedupe(Tail(list), seen \cup {Head(list)})

\* [...new Set(strings.filter((s) => s && s.trim()))]
uniqueStrings(strings) ==
    dedupe(SelectSeq(strings, LAMBDA s : s # <<>> /\ trim(s) # <<>>), {})

RECURSIVE chunksFrom(_, _, _)
\* for (i = 0; i < list.length; i += maxChunkSize) chunks.push(list.slice(i, i + maxChunkSize))
chunksFrom(list, i, maxChunkSize) ==
    IF i >= Len(list) THEN <<>>
    ELSE <<slice(list, i, i + maxChunkSize)>> \o chunksFrom(list, i + maxChunkSize, maxChunkSize)

\* a split that sends the whole list as one chunk
splitChunksWhole(list, maxChunkSize) == IF list = <<>> THEN <<>> ELSE <<list>>

splitChunks(list, maxChunkSize) == chunksFrom(list, 0, maxChunkSize)

ZeroTokens == [input |-> 0, output |-> 0, total |-> 0, chunks |-> <<>>]

\* the validation at the head of translateStrings: the error thrown, or "none"
validate(strings, targetLanguage, apiKey) ==
    IF targetLanguage \notin SUPPORTED_LANGUAGES THEN "UnsupportedLanguage"
    ELSE IF strings = <<>> THEN "InvalidInput"
    ELSE IF apiKey = "" THEN "MissingCredential"
    ELSE "none"

\* translateStrings from its entry to the first remote call.
\* glossary is <<>> (option absent) or <<terms>>.
\* error # "none": it threw; chunks = <<>>: it returns without any call.
tsBegin(strings, targetLanguage, apiKey, maxChunkSize, glossary) ==
    LET begin(unique, glossaryData, stringsToTranslate) ==
            [error |-> validate(strings, targetLanguage, apiKey),
             uniqueStrings |-> unique,
             glossaryData |-> glossaryData,
             stringsToTranslate |-> stringsToTranslate,
             allTranslations |-> IF glossaryData = <<>> THEN <<>>
                                 ELSE glossaryData[1].skipTranslation,
             chunks |-> splitChunks(stringsToTranslate, maxChunkSize),
             i |-> 1,
             tokenUsage |-> ZeroTokens,
             log |-> <<>>]
        filtered(unique, glossaryData) ==
            begin(unique, glossaryData,
                  IF glossaryData = <<>> THEN unique ELSE glossaryData[1].stringsForAPI)
        deduped(unique) ==
            filtered(unique,
                     IF glossary = <<>> THEN <<>>
                     ELSE <<prepareForTranslation(glossary[1], unique, targetLanguage)>>)
    IN  deduped(uniqueStrings(strings))

\* what the translation capability answers for one string
ApiTranslate(s, style) == IF style = "echo" THEN s ELSE <<"#">> \o s

\* the JSON object of a successful response: keyed by the strings sent
ApiResponse(chunk, style) ==
    [j \in 1..Len(chunk) |-> [k |-> chunk[j], v |-> ApiTranslate(chunk[j], style)]]

\* a catch block that records nothing for the failed chunk
identityFallbackDropped(allTranslations, chunk) == allTranslations

\* chunk.forEach((str) => { allTranslations[str] = str })
identityFallback(allTranslations, chunk) ==
    MapAssign(allTranslations, [j \in 1..Len(chunk) |-> [k |-> chunk[j], v |-> chunk[j]]])

\* tokenUsage after a chunk whose response carried usage
addUsage(tokenUsage, chunkNumber, usage) ==
    [input |-> tokenUsage.input + usage.input,
     output |-> tokenUsage.output + usage.output,
     total |-> tokenUsage.total + usage.total,
     chunks |-> Append(tokenUsage.chunks,
                       [chunkNumber |-> chunkNumber,
                        input |-> usage.input,
                        output |-> usage.output,
                        total |-> usage.total])]

\* one pass of the chunk loop body (try / catch) for chunk t.i.
\* kind: "ok"; "throws" (the call rejects); "unparsable" (JSON.parse throws);
\* "badusage" (the mapping is merged, then reading response.usage throws)
tsChunk(t, kind, style, usage) ==
    LET caught(chunk, merged) ==
            [t EXCEPT
               !.allTranslations =
                   IF kind = "ok" THEN merged
                   ELSE IF kind = "badusage" THEN identityFallback(merged, chunk)
                   ELSE identityFallback(@, chunk),
               !.tokenUsage = IF kind = "ok" THEN addUsage(@, t.i, usage) ELSE @,
               !.log = Append(@, [kind |-> kind, style |-> style, usage |-> usage])]
        tried(chunk) ==
            caught(chunk, MapAssign(t.allTranslations, ApiResponse(chunk, style)))
    IN  tried(t.chunks[t.i])

\* the tail of translateStrings after the chunk loop: the value returned
tsReturn(t) ==
    LET restored ==
            IF t.glossaryData = <<>> THEN t.allTranslations
            ELSE LET skip == t.glossaryData[1].skipTranslation
                     apiTranslations ==
                         SelectSeq(t.allTranslations, LAMBDA e : ~MapHas(skip, e.k))
                 IN  MapAssign(t.allTranslations,
                               postprocessTranslations(apiTranslations,
                                                       t.glossaryData[1].glossaryMap))
    IN  [translations |-> restored,
         tokensUsed |-> t.tokenUsage,
         totalStrings |-> Len(t.uniqueStrings),
         chunks |-> Len(t.chunks)]

(***************************************************************************)
(* translateWithMemoryAndGlossary (src/src/workflow/parse-and-translate.js)*)
(***************************************************************************)

\* steps 1 and 2: memory lookup, glossary filtering.
\* memory: BOOLEAN (a store is configured); glossary: <<>> or <<terms>>.
wfBegin(store, memory, glossary, strings, sourceLang, targetLang) ==
    LET begin(got, glossaryData, skip) ==
            [found |-> got.found,
             memoryHits |-> Len(got.found),
             glossaryData |-> glossaryData,
             glossarySkips |-> Len(skip),
             finalTranslations |-> MapAssign(got.found, skip),
             stringsToTranslate |-> IF glossaryData = <<>> THEN got.missing
                                    ELSE glossaryData[1].stringsForAPI,
             store |-> got.store]
        filtered(got, glossaryData) ==
            begin(got, glossaryData,
                  IF glossaryData = <<>> THEN <<>> ELSE glossaryData[1].skipTranslation)
        lookedUp(got) ==
            filtered(got,
                     IF glossary # <<>> /\ Len(got.missing) > 0
                     THEN <<prepareForTranslation(glossary[1], got.missing, targetLang)>>
                     ELSE <<>>)
    IN  lookedUp(IF memory THEN batchGet(store, strings, sourceLang, targetLang)
                 ELSE [found |-> <<>>, missing |-> strings, store |-> store])

\* the value returned by translateWithMemoryAndGlossary
wfResult(w, finalTranslations, tokensUsed, total) ==
    [translations |-> finalTranslations,
     tokensUsed |-> tokensUsed,
     stats |-> [total |-> total,
                fromMemory |-> w.memoryHits,
                fromGlossary |-> w.glossarySkips,
                fromAPI |-> Len(w.stringsToTranslate)]]

\* steps 4 and 5 and the merge, once translateStrings has returned r
wfFinish(w, r, store, memory, glossary, sourceLang, targetLang, total) ==
    LET finish(apiTranslations, stored) ==
            [result |-> wfResult(w, MapAssign(w.finalTranslations, apiTranslations),
                                 r.tokensUsed, total),
             apiTranslations |-> apiTranslations,
             store |-> stored.store,
             saves |-> stored.saves]
        finalized(apiTranslations) ==
            finish(apiTranslations,
                   IF memory THEN batchSet(store, apiTranslations, sourceLang, targetLang)
                   ELSE [store |-> store, saves |-> <<>>])
    IN  finalized(IF glossary # <<>> /\ w.glossaryData # <<>>
                  THEN finalizeTranslations(r.translations, w.glossaryData[1].glossaryMap,
                                            <<>>, w.glossaryData[1].originalStrings)
                  ELSE r.translations)

(***************************************************************************)
(* polygotParser and the exclusion matcher                                 *)
(* (src/src/parser/polygot.parser.js)                                      *)
(***************************************************************************)

\* [a-zA-Z0-9-]
NameChars == (WordChars \ {"_"}) \cup {"-"}

\* [a-zA-Z0-9-_]
IdentChars == NameChars \cup {"_"}

Quotes == {"\"", "'"}

\* the 0-based offset where a greedy run of characters satisfying the class
\* test, started at offset p, ends
RECURSIVE RunIn(_, _, _)
RunIn(s, p, class) ==
    IF p >= Len(s) THEN Len(s)
    ELSE IF s[p + 1] \notin class THEN p
    ELSE RunIn(s, p + 1, class)

\* the same for a negated class
RECURSIVE RunNotIn(_, _, _)
RunNotIn(s, p, class) ==
    IF p >= Len(s) THEN Len(s)
    ELSE IF s[p + 1] \in class THEN p
    ELSE RunNotIn(s, p + 1, class)

\* the pattern matches at offset p, letter case ignored (flag i)
StartsAtIgnoreCase(s, pat, p) ==
    /\ p + Len(pat) <= Len(s)
    /\ \A k \in 1..Len(pat) : LowerChar(s[p + k]) = LowerChar(pat[k])

\* /<\/?([a-zA-Z0-9-]+)([^>]*)>/ tried at offset i: <<match>> or <<>>
tagAt(code, i) ==
    IF ~(i < Len(code) /\ code[i + 1] = "<") THEN <<>>
    ELSE LET attrs(nameStart, nameEnd, close) ==
                 IF close < Len(code)
                 THEN <<[index |-> i,
                         fullTag |-> slice(code, i, close + 1),
                         name |-> slice(code, nameStart, nameEnd),
                         attrsChunk |-> slice(code, nameEnd, close),
                         lastIndex |-> close + 1]>>
                 ELSE <<>>
             name(nameStart, nameEnd) ==
                 IF nameEnd > nameStart
                 THEN attrs(nameStart, nameEnd, RunNotIn(code, nameEnd, {">"}))
                 ELSE <<>>
             slash(nameStart) ==
                 name(nameStart, RunIn(code, nameStart, NameChars))
         IN  slash(IF i + 1 < Len(code) /\ code[i + 2] = "/" THEN i + 2 ELSE i + 1)

\* tagRegex.exec(code) with the regex's lastIndex: the leftmost match
RECURSIVE execTag(_, _)
execTag(code, lastIndex) ==
    IF lastIndex >= Len(code) THEN <<>>
    ELSE LET try(m) == IF m # <<>> THEN m ELSE execTag(code, lastIndex + 1)
         IN  try(tagAt(code, lastIndex))

\* /\/\s*>$/.test(fullTag)
isSelfClosing(fullTag) ==
    \E i \in 1..Len(fullTag) - 1 :
        /\ fullTag[i] = "/"
        /\ fullTag[Len(fullTag)] = ">"
        /\ \A k \in (i + 1)..(Len(fullTag) - 1) : fullTag[k] \in Whitespace

\* /NAME\s*=\s*["']([^"']+)["']/i tried at offset i of the chunk:
\* <<captured value>> or <<>>
quotedAttrAt(chunk, name, i) ==
    IF ~StartsAtIgnoreCase(chunk, name, i) THEN <<>>
    ELSE LET value(open, end) ==
                 IF end > open + 1 /\ end < Len(chunk)
                 THEN <<slice(chunk, open + 1, end)>>
                 ELSE <<>>
             quote(open) ==
                 IF ~(open < Len(chunk) /\ chunk[open + 1] \in Quotes) THEN <<>>
                 ELSE value(open, RunNotIn(chunk, open + 1, Quotes))
             equals(eq) ==
                 IF ~(eq < Len(chunk) /\ chunk[eq + 1] = "=") THEN <<>>
                 ELSE quote(RunIn(chunk, eq + 1, Whitespace))
         IN  equals(RunIn(chunk, i + Len(name), Whitespace))

\* attrsChunk.match(/NAME\s*=\s*["']([^"']+)["']/i): the leftmost match
RECURSIVE quotedAttrFrom(_, _, _)
quotedAttrFrom(chunk, name, i) ==
    IF i >= Len(chunk) THEN <<>>
    ELSE LET try(m) == IF m # <<>> THEN m ELSE quotedAttrFrom(chunk, name, i + 1)
         IN  try(quotedAttrAt(chunk, name, i))

quotedAttr(chunk, name) == quotedAttrFrom(chunk, name, 0)

\* value.split(/\s+/).filter((c) => c.length > 0), from offset p
RECURSIVE tokensFrom(_, _)
tokensFrom(s, p) ==
    LET rest(a) ==
            IF a = Len(s) THEN <<>>
            ELSE LET next(e) == <<slice(s, a, e)>> \o tokensFrom(s, e)
                 IN  next(RunNotIn(s, a, Whitespace))
    IN  rest(RunIn(s, p, Whitespace))

splitClasses(value) == tokensFrom(value, 0)

\* /className\s*=\s*\{[^}]*["']([^"']+)["'][^}]*\}/i tried at offset i of the
\* chunk: <<captured value>> or <<>>. [^}]* is greedy, so the literal
\* captured is the last one that starts before the first closing brace.
classNameExprAt(chunk, i) ==
    IF ~StartsAtIgnoreCase(chunk, <<"c", "l", "a", "s", "s", "N", "a", "m", "e">>, i)
    THEN <<>>
    ELSE LET eq == RunIn(chunk, i + 9, Whitespace)
         IN  IF ~(eq < Len(chunk) /\ chunk[eq + 1] = "=") THEN <<>>
             ELSE LET open == RunIn(chunk, eq + 1, Whitespace)
                  IN  IF ~(open < Len(chunk) /\ chunk[open + 1] = "{") THEN <<>>
                      ELSE LET brace == RunNotIn(chunk, open + 1, {"}"})
                               litEnd(q) == RunNotIn(chunk, q + 1, Quotes)
                               lits == {q \in (open + 1)..brace :
                                           /\ q < Len(chunk)
                                           /\ chunk[q + 1] \in Quotes
                                           /\ litEnd(q) > q + 1
                                           /\ litEnd(q) < Len(chunk)
                                           /\ \E b \in (litEnd(q) + 1)..(Len(chunk) - 1) :
                                                  chunk[b + 1] = "}"}
                           IN  IF lits = {} THEN <<>>
                               ELSE <<slice(chunk, SetMax(lits) + 1, litEnd(SetMax(lits)))>>

RECURSIVE classNameExprFrom(_, _)
classNameExprFrom(chunk, i) ==
    IF i >= Len(chunk) THEN <<>>
    ELSE LET try(m) == IF m # <<>> THEN m ELSE classNameExprFrom(chunk, i + 1)
         IN  try(classNameExprAt(chunk, i))

classNameExpr(chunk) == classNameExprFrom(chunk, 0)

\* the classes of an optional attribute value
classesOf(match) == IF match = <<>> THEN <<>> ELSE splitClasses(match[1])

\* the tagInfo of an opening tag
tagInfoOf(match) ==
    [tag |-> toLowerCase(match.name),
     id |-> quotedAttr(match.attrsChunk, <<"i", "d">>),
     classes |-> classesOf(quotedAttr(match.attrsChunk, <<"c", "l", "a", "s", "s">>))
                 \o classesOf(quotedAttr(match.attrsChunk,
                                         <<"c", "l", "a", "s", "s", "N", "a", "m", "e">>))
                 \o classesOf(classNameExpr(match.attrsChunk)),
     position |-> match.index]

\* a closing tag that splices out the first stack entry of that name
closeTagFirst(stack, tagName) ==
    LET same == {i \in 1..Len(stack) : stack[i].tag = tagName}
    IN  IF same = {} THEN stack
        ELSE [i \in 1..(Len(stack) - 1) |->
                 IF i < SetMin(same) THEN stack[i] ELSE stack[i + 1]]

\* a closing-tag branch that pops the top entry when it has that name and
\* does nothing otherwise
closeTagTopOnly(stack, tagName) ==
    IF stack # <<>> /\ stack[Len(stack)].tag = tagName
    THEN SubSeq(stack, 1, Len(stack) - 1)
    ELSE stack

\* the closing-tag branch: splice out the last stack entry of that name
closeTag(stack, tagName) ==
    LET same == {i \in 1..Len(stack) : stack[i].tag = tagName}
    IN  IF same = {} THEN stack
        ELSE [i \in 1..(Len(stack) - 1) |->
                 IF i < SetMax(same) THEN stack[i] ELSE stack[i + 1]]

\* the stack after one tag match
pushOrPop(stack, match) ==
    IF StartsAt(match.fullTag, <<"<", "/">>, 0)
    THEN closeTag(stack, toLowerCase(match.name))
    ELSE IF isSelfClosing(match.fullTag) THEN stack
    ELSE Append(stack, tagInfoOf(match))

\* the loop over tagRegex.exec(code), stopped at the first tag at or after
\* the position
RECURSIVE openStack(_, _, _, _)
openStack(code, position, lastIndex, stack) ==
    LET step(m) ==
            IF m = <<>> THEN stack
            ELSE IF m[1].index >= position THEN stack
            ELSE openStack(code, position, m[1].lastIndex, pushOrPop(stack, m[1]))
    IN  step(execTag(code, lastIndex))

\* one selector of excludeTags as a rule
parseExcludeRule(selector) ==
    LET trimmed == trim(selector)
        tagEnd == RunIn(trimmed, 0, NameChars)
        remaining == sliceFrom(trimmed, tagEnd)
        idEnd(i) == RunIn(remaining, i + 1, IdentChars)
        ids == {i \in 0..(Len(remaining) - 1) :
                   remaining[i + 1] = "#" /\ idEnd(i) > i + 1}
        afterId == IF ids = {} THEN remaining
                   ELSE slice(remaining, 0, SetMin(ids))
                        \o sliceFrom(remaining, idEnd(SetMin(ids)))
        clsEnd(i) == RunIn(afterId, i + 1, IdentChars)
        RECURSIVE classesFrom(_)
        classesFrom(p) ==
            LET dots == {i \in p..(Len(afterId) - 1) :
                            afterId[i + 1] = "." /\ clsEnd(i) > i + 1}
            IN  IF dots = {} THEN <<>>
                ELSE <<slice(afterId, SetMin(dots) + 1, clsEnd(SetMin(dots)))>>
                     \o classesFrom(clsEnd(SetMin(dots)))
    IN  [tag |-> IF tagEnd > 0 THEN <<toLowerCase(slice(trimmed, 0, tagEnd))>> ELSE <<>>,
         id |-> IF ids = {} THEN <<>>
                ELSE <<slice(remaining, SetMin(ids) + 1, idEnd(SetMin(ids)))>>,
         classes |-> classesFrom(0)]

parseExcludeRules(excludeTags) ==
    [n \in 1..Len(excludeTags) |-> parseExcludeRule(excludeTags[n])]

\* a loop body that asks for some class of the rule instead of every class
ruleAcceptsSomeClass(rule, tagInfo) ==
    /\ rule.tag = <<>> \/ rule.tag[1] = tagInfo.tag
    /\ rule.id = <<>> \/ rule.id = tagInfo.id
    /\ rule.classes = <<>>
       \/ \E c \in 1..Len(rule.classes) : rule.classes[c] \in SeqToSet(tagInfo.classes)

\* one pass of the loop body of matchesExcludeRule: TRUE where it returns
\* true, FALSE where it continues
ruleAccepts(rule, tagInfo) ==
    IF rule.tag # <<>> /\ rule.tag[1] # tagInfo.tag THEN FALSE
    ELSE IF rule.tag # <<>> /\ rule.id = <<>> /\ rule.classes = <<>> THEN TRUE
    ELSE IF rule.id # <<>> /\ rule.id # tagInfo.id THEN FALSE
    ELSE IF /\ rule.classes # <<>>
            /\ ~(\A c \in 1..Len(rule.classes) :
                    rule.classes[c] \in SeqToSet(tagInfo.classes))
         THEN FALSE
    ELSE TRUE

matchesExcludeRule(tagInfo, excludeRules) ==
    \E r \in 1..Len(excludeRules) : ruleAccepts(excludeRules[r], tagInfo)

shouldExcludeText(code, position, excludeRules) ==
    IF excludeRules = <<>> THEN FALSE
    ELSE LET anyAncestor(stack) ==
                 \E a \in 1..Len(stack) : matchesExcludeRule(stack[a], excludeRules)
         IN  anyAncestor(openStack(code, position, 0, <<>>))

\* the character U+0060, which a TLA+ string literal cannot hold
Backtick == "backtick"

\* s.indexOf(pat, p), -1 when there is none
RECURSIVE indexOfFrom(_, _, _)
indexOfFrom(s, pat, p) ==
    IF p + Len(pat) > Len(s) THEN -1
    ELSE IF StartsAt(s, pat, p) THEN p
    ELSE indexOfFrom(s, pat, p + 1)

\* code.replace(/\/\*[\s\S]*?\*\//g, "")
RECURSIVE stripBlockComments(_)
stripBlockComments(code) ==
    LET close(i, j) ==
            IF j < 0 THEN code
            ELSE slice(code, 0, i) \o stripBlockComments(sliceFrom(code, j + 2))
        open(i) ==
            IF i < 0 THEN code
            ELSE close(i, indexOfFrom(code, <<"*", "/">>, i + 2))
    IN  open(indexOfFrom(code, <<"/", "*">>, 0))

\* code.replace(/\/\/.*/g, ""): from // to the end of the line
RECURSIVE stripLineComments(_)
stripLineComments(code) ==
    LET open(i) ==
            IF i < 0 THEN code
            ELSE slice(code, 0, i)
                 \o stripLineComments(sliceFrom(code, RunNotIn(code, i, {"\n"})))
    IN  open(indexOfFrom(code, <<"/", "/">>, 0))

stripComments(code) == stripLineComments(stripBlockComments(code))

\* the loop over jsxTextRegex = />([^<>{}]+)</g from lastIndex p: the trimmed
\* text runs that are not excluded. rawText holds no <, so the split on
\* self-closing tags yields rawText itself.
RECURSIVE textRunsFrom(_, _, _)
textRunsFrom(code, rules, p) ==
    LET run(i, e) ==
            IF e > i + 1 /\ e < Len(code) /\ code[e + 1] = "<"
            THEN (IF trim(slice(code, i + 1, e)) # <<>> /\ ~shouldExcludeText(code, i, rules)
                  THEN <<trim(slice(code, i + 1, e))>> ELSE <<>>)
                 \o textRunsFrom(code, rules, e + 1)
            ELSE textRunsFrom(code, rules, i + 1)
        next(i) ==
            IF i >= Len(code) THEN <<>>
            ELSE run(i, RunNotIn(code, i + 1, {"<", ">", "{", "}"}))
    IN  next(RunNotIn(code, p, {">"}))

\* the offset of the quote that closes a literal opened just before offset p
\* in /q([^q\\]*(\\.[^q\\]*)*)q/, -1 when the literal is not closed
RECURSIVE literalEnd(_, _, _)
literalEnd(s, p, q) ==
    IF p >= Len(s) THEN -1
    ELSE IF s[p + 1] = q THEN p
    ELSE IF s[p + 1] = "\\"
         THEN IF p + 1 < Len(s) /\ s[p + 2] # "\n" THEN literalEnd(s, p + 2, q) ELSE -1
    ELSE literalEnd(s, p + 1, q)

\* expr.matchAll of the literal regex for the quote q, from offset p: the
\* captured contents
RECURSIVE literalsFrom(_, _, _)
literalsFrom(expr, q, p) ==
    LET lit(i, end) ==
            IF end < 0 THEN literalsFrom(expr, q, i + 1)
            ELSE <<slice(expr, i + 1, end)>> \o literalsFrom(expr, q, end + 1)
        next(i) ==
            IF i >= Len(expr) THEN <<>> ELSE lit(i, literalEnd(expr, i + 1, q))
    IN  next(RunNotIn(expr, p, {q}))

\* the template literals of expr (a backtick, characters other than a
\* backtick, a backtick) and, for each, template.slice(1, -1).split(...):
\* expr holds no }, so no ${...} is complete and the split yields one part
RECURSIVE templatePartsFrom(_, _)
templatePartsFrom(expr, p) ==
    LET lit(i, end) ==
            IF end >= Len(expr) THEN <<>>
            ELSE <<slice(expr, i + 1, end)>> \o templatePartsFrom(expr, end + 1)
        next(i) ==
            IF i >= Len(expr) THEN <<>> ELSE lit(i, RunNotIn(expr, i + 1, {Backtick}))
    IN  next(RunNotIn(expr, p, {Backtick}))

\* the strings one JSX expression adds, in the order of the adds
expressionStrings(expr) ==
    LET trimmed(list) == [n \in 1..Len(list) |-> trim(list[n])]
    IN  SelectSeq(trimmed(literalsFrom(expr, "\"", 0) \o literalsFrom(expr, "'", 0)
                          \o literalsFrom(expr, Backtick, 0) \o templatePartsFrom(expr, 0)),
                  LAMBDA str : str # <<>>)

\* the loop over jsxExpressionRegex = /\{([^}]+)\}/g from lastIndex p
RECURSIVE expressionsFrom(_, _, _)
expressionsFrom(code, rules, p) ==
    LET run(i, e) ==
            IF e > i + 1 /\ e < Len(code)
            THEN (IF shouldExcludeText(code, i, rules) THEN <<>>
                  ELSE expressionStrings(slice(code, i + 1, e)))
                 \o expressionsFrom(code, rules, e + 1)
            ELSE expressionsFrom(code, rules, i + 1)
        next(i) ==
            IF i >= Len(code) THEN <<>> ELSE run(i, RunNotIn(code, i + 1, {"}"}))
    IN  next(RunNotIn(code, p, {"{"}))

\* the offsets where one attribute pattern can end when it starts at offset
\* p, in the order the regex tries them; * stands for [a-zA-Z0-9\-]* (greedy),
\* every other character for itself (flag i)
RECURSIVE patternEnds(_, _, _)
patternEnds(s, p, pat) ==
    IF pat = <<>> THEN <<p>>
    ELSE IF Head(pat) = "*"
         THEN LET RECURSIVE shorter(_)
                  shorter(e) == patternEnds(s, e, Tail(pat))
                                \o (IF e > p THEN shorter(e - 1) ELSE <<>>)
              IN  shorter(RunIn(s, p, NameChars))
    ELSE IF p < Len(s) /\ LowerChar(s[p + 1]) = LowerChar(Head(pat))
         THEN patternEnds(s, p + 1, Tail(pat))
    ELSE <<>>

\* the rest of visibleAttrRegex (optional whitespace, =, optional whitespace,
\* a quoted non-empty value) tried at offset e: <<[value, lastIndex]>> or <<>>
attrTail(s, e) ==
    LET value(open, end) ==
            IF end > open + 1 /\ end < Len(s)
            THEN <<[value |-> slice(s, open + 1, end), lastIndex |-> end + 1]>>
            ELSE <<>>
        quote(open) ==
            IF ~(open < Len(s) /\ s[open + 1] \in Quotes) THEN <<>>
            ELSE value(open, RunNotIn(s, open + 1, Quotes))
        equals(eq) ==
            IF ~(eq < Len(s) /\ s[eq + 1] = "=") THEN <<>>
            ELSE quote(RunIn(s, eq + 1, Whitespace))
    IN  equals(RunIn(s, e, Whitespace))

\* the first of the offsets (in order) after which the tail matches
RECURSIVE firstTail(_, _)
firstTail(s, ends) ==
    IF ends = <<>> THEN <<>>
    ELSE LET try(m) == IF m # <<>> THEN m ELSE firstTail(s, Tail(ends))
         IN  try(attrTail(s, Head(ends)))

\* visibleAttrRegex tried at offset i: the alternatives in the order of
\* visibleAttributes
RECURSIVE attrMatchAt(_, _, _)
attrMatchAt(s, i, patterns) ==
    IF patterns = <<>> THEN <<>>
    ELSE LET try(m) == IF m # <<>> THEN m ELSE attrMatchAt(s, i, Tail(patterns))
         IN  try(firstTail(s, patternEnds(s, i, Head(patterns))))

\* the loop over visibleAttrRegex from lastIndex p
RECURSIVE attributesFrom(_, _, _, _)
attributesFrom(code, patterns, rules, p) ==
    IF p >= Len(code) THEN <<>>
    ELSE LET found(m) ==
                 IF m = <<>> THEN attributesFrom(code, patterns, rules, p + 1)
                 ELSE (IF trim(m[1].value) # <<>> /\ ~shouldExcludeText(code, p, rules)
                       THEN <<trim(m[1].value)>> ELSE <<>>)
                      \o attributesFrom(code, patterns, rules, m[1].lastIndex)
         IN  found(attrMatchAt(code, p, patterns))

\* the six replacements of entityMap, in its order
decodeEntities(str) ==
    replaceAll(replaceAll(replaceAll(replaceAll(replaceAll(replaceAll(str,
        <<"&", "n", "b", "s", "p", ";">>, <<" ">>),
        <<"&", "a", "m", "p", ";">>, <<"&">>),
        <<"&", "l", "t", ";">>, <<"<">>),
        <<"&", "g", "t", ";">>, <<">">>),
        <<"&", "q", "u", "o", "t", ";">>, <<"\"">>),
        <<"&", "#", "3", "9", ";">>, <<"'">>)

\* the filter of finalStrings
keepString(str) ==
    /\ Len(str) > 0
    /\ \E n \in 1..Len(str) : str[n] \notin Whitespace
    /\ \E n \in 1..Len(str) : str[n] \notin {"{", "}", "(", ")", "[", "]", ";", ","}

\* the decoded and filtered array returned as it is, without new Set(...)
finalStringsArray(strings) ==
    SelectSeq([n \in 1..Len(strings) |-> decodeEntities(strings[n])], keepString)

\* Array.from(strings).map(decode).filter(...) and [...new Set(finalStrings)]
finalStrings(strings) ==
    dedupe(SelectSeq([n \in 1..Len(strings) |-> decodeEntities(strings[n])], keepString), {})

\* the strings added to the Set, in the order of the adds
extractStrings(code, visibleAttributes, excludeTags) ==
    LET extract(stripped, rules) ==
            textRunsFrom(stripped, rules, 0)
            \o expressionsFrom(stripped, rules, 0)
            \o (IF Len(visibleAttributes) > 0
                THEN attributesFrom(stripped, visibleAttributes, rules, 0)
                ELSE <<>>)
    IN  extract(stripComments(code), parseExcludeRules(excludeTags))

(***************************************************************************)
(* State                                                                   *)
(***************************************************************************)

VARIABLES
    opts,    \* [memory, glossary]: which stores the workflow was given
    terms,   \* GlossaryManager.terms
    cache,   \* TranslationMemoryStore.cache
    stats,   \* TranslationMemoryStore.stats
    disk,    \* memory.json: <<>> while absent, else <<[cache, stats]>>
    pc,      \* "idle", "calling" (a remote call is outstanding), "pause"
             \* (the delay between chunks), "done", "failed"
    req,     \* the arguments of the call in progress
    wf,      \* locals of translateWithMemoryAndGlossary
    ts,      \* locals of translateStrings
    result,  \* the value returned, or the error thrown
    runs,    \* calls started so far
    hist     \* history: every [text, sourceLang, targetLang, translation]
             \* handed to set(), texts trimmed

vars == <<opts, terms, cache, stats, disk, pc, req, wf, ts, result, runs, hist>>

(***************************************************************************)
(* Bounds and input universes                                              *)
(***************************************************************************)

MaxRuns == 2
MaxStrings == 2
MaxChunkStrings == 3

EmptyCache == [k \in {} |-> <<>>]
ZeroStats == [hits |-> 0, misses |-> 0, additions |-> 0]
None == [none |-> TRUE]

\* "b", " b", "A", "b A", " "
WorkflowTexts ==
    {<<"b">>, <<" ", "b">>, <<"A">>, <<"b", " ", "A">>, <<" ">>}

\* the lists of at most n strings over a set of texts
Lists(texts, n) == UNION {[1..k -> texts] : k \in 0..n}

TargetLangs == {"es", "xx"}
ApiKeys == {"", "sk"}
ChunkSizes == {1, 2}
NoTranslations == [l \in {} |-> <<>>]

\* glossary.json as loaded by initialize(): empty, a do-not-translate brand
\* term, or a term with a fixed Spanish translation
WorkflowGlossaries ==
    {<<>>,
     GlossaryAdd(<<>>, <<"A">>, NoTranslations, TRUE, TRUE),
     GlossaryAdd(<<>>, <<"A">>, [l \in {"es"} |-> <<"Y">>], TRUE, FALSE)}

Usages == {[input |-> 1, output |-> 1, total |-> 2],
           [input |-> 2, output |-> 3, total |-> 5]}
FailureKinds == {"throws", "unparsable", "badusage"}

store == [cache |-> cache, stats |-> stats]
glossaryOpt == IF opts.glossary THEN <<terms>> ELSE <<>>

\* await this.save() of the saves requested by a batchSet, in order
diskAfter(saves) == IF saves = <<>> THEN disk ELSE <<saves[Len(saves)]>>

(***************************************************************************)
(* Actions                                                                 *)
(***************************************************************************)

\* what hist remembers of one set(sourceText, translation, ...)
SetRecord(sourceText, translation, sourceLang, targetLang) ==
    [text |-> trim(sourceText), sourceLang |-> sourceLang,
     targetLang |-> targetLang, translation |-> trim(translation)]

\* translateStrings has returned r to translateWithMemoryAndGlossary, or to
\* the caller of a direct call
Complete(call, t, w, curStore) ==
    \E r \in {tsReturn(t)} :
        IF call.via = "workflow"
        THEN \E f \in {wfFinish(w, r, curStore, opts.memory, glossaryOpt,
                                 call.sourceLang, call.targetLang, Len(call.strings))} :
                 /\ result' = f.result
                 /\ cache' = f.store.cache
                 /\ stats' = f.store.stats
                 /\ disk' = diskAfter(f.saves)
                 /\ hist' = IF opts.memory
                            THEN hist \cup {SetRecord(f.apiTranslations[j].k,
                                                      f.apiTranslations[j].v,
                                                      call.sourceLang, call.targetLang) :
                                               j \in 1..Len(f.apiTranslations)}
                            ELSE hist
        ELSE /\ result' = r
             /\ cache' = curStore.cache
             /\ stats' = curStore.stats
             /\ disk' = disk
             /\ hist' = hist

\* translateWithMemoryAndGlossary(strings, targetLang, apiKey, options) up to
\* its first remote call, or to its end when it makes none
Translate(strings, targetLang, apiKey, maxChunkSize) ==
    /\ pc = "idle"
    /\ runs < MaxRuns
    /\ runs' = runs + 1
    /\ req' = [via |-> "workflow", strings |-> strings, targetLang |-> targetLang,
               sourceLang |-> "en", apiKey |-> apiKey, maxChunkSize |-> maxChunkSize]
    /\ \E w \in {wfBegin(store, opts.memory, glossaryOpt, strings, "en", targetLang)} :
       \E t \in {tsBegin(w.stringsToTranslate, targetLang, apiKey, maxChunkSize, <<>>)} :
           /\ wf' = w
           /\ IF Len(w.stringsToTranslate) = 0
              THEN /\ pc' = "done"
                   /\ ts' = None
                   /\ result' = wfResult(w, w.finalTranslations, ZeroTokens, Len(strings))
                   /\ cache' = w.store.cache
                   /\ stats' = w.store.stats
                   /\ disk' = disk
                   /\ hist' = hist
              ELSE IF t.error # "none"
              THEN /\ pc' = "failed"
                   /\ ts' = None
                   /\ result' = [error |-> t.error]
                   /\ cache' = w.store.cache
                   /\ stats' = w.store.stats
                   /\ disk' = disk
                   /\ hist' = hist
              ELSE IF t.chunks = <<>>
              THEN /\ pc' = "done"
                   /\ ts' = t
                   /\ Complete(req', t, w, w.store)
              ELSE /\ pc' = "calling"
                   /\ ts' = t
                   /\ result' = None
                   /\ cache' = w.store.cache
                   /\ stats' = w.store.stats
                   /\ disk' = disk
                   /\ hist' = hist
    /\ UNCHANGED <<opts, terms>>

\* a direct call of translateStrings(strings, targetLanguage, apiKey, options),
\* with or without the glossary option
TranslateStrings(strings, targetLang, apiKey, maxChunkSize, withGlossary) ==
    /\ pc = "idle"
    /\ runs < MaxRuns
    /\ runs' = runs + 1
    /\ req' = [via |-> "direct", strings |-> strings, targetLang |-> targetLang,
               sourceLang |-> "en", apiKey |-> apiKey, maxChunkSize |-> maxChunkSize]
    /\ wf' = None
    /\ \E t \in {tsBegin(strings, targetLang, apiKey, maxChunkSize,
                         IF withGlossary THEN <<terms>> ELSE <<>>)} :
           IF t.error # "none"
           THEN /\ pc' = "failed"
                /\ ts' = None
                /\ result' = [error |-> t.error]
           ELSE IF t.chunks = <<>>
           THEN /\ pc' = "done"
                /\ ts' = t
                /\ result' = tsReturn(t)
           ELSE /\ pc' = "calling"
                /\ ts' = t
                /\ result' = None
    /\ UNCHANGED <<opts, terms, cache, stats, disk, hist>>

\* the remote call for chunk ts.i returns or throws; after the last chunk
\* the run goes on to its end
ChunkReply(kind, style, usage) ==
    /\ pc = "calling"
    /\ \E t \in {tsChunk(ts, kind, style, usage)} :
           /\ ts' = t
           /\ IF ts.i < Len(ts.chunks)
              THEN /\ pc' = "pause"
                   /\ UNCHANGED <<result, cache, stats, disk, hist>>
              ELSE /\ pc' = "done"
                   /\ Complete(req, t, wf, store)
    /\ UNCHANGED <<opts, terms, req, wf, runs>>

\* the 500 ms delay between two chunks is over
\* a loop that leaves out the chunk after the pause
PauseSkipsChunk ==
    /\ pc = "pause"
    /\ pc' = "calling"
    /\ ts' = [ts EXCEPT !.i = @ + 2]
    /\ UNCHANGED <<opts, terms, cache, stats, disk, req, wf, result, runs, hist>>

Pause ==
    /\ pc = "pause"
    /\ pc' = "calling"
    /\ ts' = [ts EXCEPT !.i = @ + 1]
    /\ UNCHANGED <<opts, terms, cache, stats, disk, req, wf, result, runs, hist>>

\* the caller has taken the result (or the error); the stores live on
Return ==
    /\ pc \in {"done", "failed"}
    /\ pc' = "idle"
    /\ req' = None
    /\ wf' = None
    /\ ts' = None
    /\ result' = None
    /\ UNCHANGED <<opts, terms, cache, stats, disk, runs, hist>>

(***************************************************************************)
(* Spec: the workflow. The stores are as initialize() leaves them on a     *)
(* first run (an empty memory, written to disk; the glossary file loaded). *)
(***************************************************************************)

Init ==
    /\ opts \in [memory : BOOLEAN, glossary : BOOLEAN]
    /\ terms \in IF opts.glossary THEN WorkflowGlossaries ELSE {<<>>}
    /\ cache = EmptyCache
    /\ stats = ZeroStats
    /\ disk = IF opts.memory THEN <<[cache |-> EmptyCache, stats |-> ZeroStats]>> ELSE <<>>
    /\ pc = "idle"
    /\ req = None
    /\ wf = None
    /\ ts = None
    /\ result = None
    /\ runs = 0
    /\ hist = {}

WorkflowCall ==
    \E strings \in Lists(WorkflowTexts, MaxStrings), targetLang \in TargetLangs,
       apiKey \in ApiKeys, maxChunkSize \in ChunkSizes :
        Translate(strings, targetLang, apiKey, maxChunkSize)

WorkflowReply ==
    \/ \E usage \in Usages : ChunkReply("ok", "mark", usage)
    \/ \E kind \in FailureKinds : ChunkReply(kind, "mark", CHOOSE u \in Usages : TRUE)

Next ==
    \/ WorkflowCall
    \/ WorkflowReply
    \/ Pause
    \/ Return

Spec == Init /\ [][Next]_vars

\* SpecLive: the workflow under the scheduling the code relies on. Every
\* remote call eventually returns or throws (the await on the client's
\* completion settles), and the setTimeout of the pause between two chunks
\* eventually fires. Valid requests only, one string per chunk, so that a
\* run makes as many remote calls as it has strings to send.
LiveCall ==
    \E strings \in Lists({<<"b">>, <<"b", " ", "A">>}, MaxStrings) :
        Translate(strings, "es", "sk", 1)

LiveReply ==
    \/ ChunkReply("ok", "mark", CHOOSE u \in Usages : TRUE)
    \/ ChunkReply("throws", "mark", CHOOSE u \in Usages : TRUE)

NextLive ==
    \/ LiveCall
    \/ LiveReply
    \/ Pause
    \/ Return

\* the outstanding remote call returns or throws: the only steps that leave
\* "calling" are those of LiveReply
CallSettles == pc = "calling" /\ pc' \in {"pause", "done"}

SpecLive == Init /\ [][NextLive]_vars /\ WF_pc(CallSettles) /\ WF_vars(Pause)

(***************************************************************************)
(* SpecTranslate: direct calls of translateStrings, long enough lists for  *)
(* three chunks, every outcome of every remote call                        *)
(***************************************************************************)

\* "b", "A", "b A", " "
ChunkTexts == {<<"b">>, <<"A">>, <<"b", " ", "A">>, <<" ">>}
Styles == {"mark", "echo"}

InitTranslate ==
    /\ opts = [memory |-> FALSE, glossary |-> TRUE]
    /\ terms \in WorkflowGlossaries
    /\ cache = EmptyCache
    /\ stats = ZeroStats
    /\ disk = <<>>
    /\ pc = "idle"
    /\ req = None
    /\ wf = None
    /\ ts = None
    /\ result = None
    /\ runs = 0
    /\ hist = {}

\* one call per behaviour; a loaded glossary is passed as options.glossary
DirectCall ==
    \E strings \in Lists(ChunkTexts, MaxChunkStrings), targetLang \in TargetLangs,
       apiKey \in ApiKeys, maxChunkSize \in ChunkSizes :
        /\ runs = 0
        /\ TranslateStrings(strings, targetLang, apiKey, maxChunkSize, terms # <<>>)

DirectReply ==
    \/ \E style \in Styles, usage \in Usages : ChunkReply("ok", style, usage)
    \/ \E kind \in FailureKinds : ChunkReply(kind, "mark", CHOOSE u \in Usages : TRUE)

NextTranslate ==
    \/ DirectCall
    \/ DirectReply
    \/ Pause

SpecTranslate == InitTranslate /\ [][NextTranslate]_vars

(***************************************************************************)
(* SpecMemory: get and set on one TranslationMemoryStore                   *)
(***************************************************************************)

MaxOps == 3

\* "b", " b", "A", "b A": "A" and "b A" share a key, "b" and " b" trim alike
MemoryTexts == {<<"b">>, <<" ", "b">>, <<"A">>, <<"b", " ", "A">>}
\* "Y", " Y ", "b", ""
MemoryTranslations == {<<"Y">>, <<" ", "Y", " ">>, <<"b">>, <<>>}
MemoryLangPairs == {<<"en", "es">>, <<"en", "fr">>}

InitMemory ==
    /\ opts = [memory |-> TRUE, glossary |-> FALSE]
    /\ terms = <<>>
    /\ cache = EmptyCache
    /\ stats = ZeroStats
    /\ disk = <<[cache |-> EmptyCache, stats |-> ZeroStats]>>
    /\ pc = "idle"
    /\ req = None
    /\ wf = None
    /\ ts = None
    /\ result = None
    /\ runs = 0
    /\ hist = {}

\* await memory.set(sourceText, translation, sourceLang, targetLang)
Set(sourceText, translation, sourceLang, targetLang) ==
    /\ runs < MaxOps
    /\ runs' = runs + 1
    /\ LET r == MemorySet(store, sourceText, translation, sourceLang, targetLang, FALSE)
       IN  /\ cache' = r.store.cache
           /\ stats' = r.store.stats
           /\ disk' = IF r.save THEN <<r.store>> ELSE disk
    /\ hist' = hist \cup {SetRecord(sourceText, translation, sourceLang, targetLang)}
    /\ result' = [op |-> "set", text |-> sourceText, translation |-> translation,
                  sourceLang |-> sourceLang, targetLang |-> targetLang]
    /\ UNCHANGED <<opts, terms, pc, req, wf, ts>>

\* await memory.get(sourceText, sourceLang, targetLang)
Get(sourceText, sourceLang, targetLang) ==
    /\ runs < MaxOps
    /\ runs' = runs + 1
    /\ LET r == MemoryGet(store, sourceText, sourceLang, targetLang)
       IN  /\ cache' = r.store.cache
           /\ stats' = r.store.stats
           /\ result' = [op |-> "get", text |-> sourceText, sourceLang |-> sourceLang,
                         targetLang |-> targetLang, value |-> r.value]
    /\ UNCHANGED <<opts, terms, disk, pc, req, wf, ts, hist>>

\* await memory.batchGet(sourceTexts, sourceLang, targetLang)
BatchGet(sourceTexts, sourceLang, targetLang) ==
    /\ runs < MaxOps
    /\ runs' = runs + 1
    /\ LET r == batchGet(store, sourceTexts, sourceLang, targetLang)
       IN  /\ cache' = r.store.cache
           /\ stats' = r.store.stats
           /\ result' = [op |-> "batchGet", texts |-> sourceTexts,
                         sourceLang |-> sourceLang, targetLang |-> targetLang,
                         found |-> r.found, missing |-> r.missing]
    /\ UNCHANGED <<opts, terms, disk, pc, req, wf, ts, hist>>

MemoryBatchGetCall ==
    \E sourceTexts \in Lists(MemoryTexts, MaxStrings), pair \in MemoryLangPairs :
        BatchGet(sourceTexts, pair[1], pair[2])

MemorySetCall ==
    \E sourceText \in MemoryTexts, translation \in MemoryTranslations,
       pair \in MemoryLangPairs :
        Set(sourceText, translation, pair[1], pair[2])

MemoryGetCall ==
    \E sourceText \in MemoryTexts, pair \in MemoryLangPairs :
        Get(sourceText, pair[1], pair[2])

NextMemory ==
    \/ MemorySetCall
    \/ MemoryGetCall
    \/ MemoryBatchGetCall

SpecMemory == InitMemory /\ [][NextMemory]_vars

(***************************************************************************)
(* SpecGlossary: a glossary built by add(), then prepareForTranslation, a  *)
(* translation that returns every string unchanged, postprocessing         *)
(***************************************************************************)

MaxTerms == 2

\* "A", "a"
GlossaryTerms == {<<"A">>, <<"a">>}
\* no translation, Spanish "Y", or Spanish "$&"
GlossaryTranslations ==
    {NoTranslations, [l \in {"es"} |-> <<"Y">>], [l \in {"es"} |-> <<"$", "&">>]}
\* "A", "a", " A", "b A", "A a", "b", "__GLOSSARY_0__ A"
GlossaryTexts ==
    {<<"A">>, <<"a">>, <<" ", "A">>, <<"b", " ", "A">>, <<"A", " ", "a">>, <<"b">>,
     Placeholder(0) \o <<" ", "A">>}

InitGlossary ==
    /\ opts = [memory |-> FALSE, glossary |-> TRUE]
    /\ terms = <<>>
    /\ cache = EmptyCache
    /\ stats = ZeroStats
    /\ disk = <<>>
    /\ pc = "idle"
    /\ req = None
    /\ wf = None
    /\ ts = None
    /\ result = None
    /\ runs = 0
    /\ hist = {}

\* await glossary.add(term, translations, { caseSensitive, doNotTranslate })
AddTerm(term, translations, caseSensitive, doNotTranslate) ==
    /\ pc = "idle"
    /\ Len(terms) < MaxTerms
    /\ terms' = GlossaryAdd(terms, term, translations, caseSensitive, doNotTranslate)
    /\ terms' # terms
    /\ UNCHANGED <<opts, cache, stats, disk, pc, req, wf, ts, result, runs, hist>>

\* glossary.prepareForTranslation(strings, targetLang)
Prepare(strings, targetLang) ==
    /\ pc = "idle"
    /\ pc' = "prepared"
    /\ req' = [via |-> "glossary", strings |-> strings, targetLang |-> targetLang]
    /\ wf' = prepareForTranslation(terms, strings, targetLang)
    /\ UNCHANGED <<opts, terms, cache, stats, disk, ts, result, runs, hist>>

\* the translation answers every string with itself, then
\* glossary.postprocessTranslations(translations, glossaryMap)
NoopPostprocess ==
    /\ pc = "prepared"
    /\ pc' = "done"
    /\ result' = postprocessTranslations(
                     MapAssign(<<>>, [j \in 1..Len(wf.stringsForAPI) |->
                                         [k |-> wf.stringsForAPI[j],
                                          v |-> wf.stringsForAPI[j]]]),
                     wf.glossaryMap)
    /\ UNCHANGED <<opts, terms, cache, stats, disk, req, wf, ts, runs, hist>>

\* what the translation capability returns for a string sent: the string
\* behind a mark, the string twice over, or the string with its blanks gone
ReplyStyles == {"marked", "twice", "packed"}

ApiReply(s, style) ==
    CASE style = "marked" -> <<"#">> \o s
      [] style = "twice" -> s \o <<" ">> \o s
      [] OTHER -> SelectSeq(s, LAMBDA c : c # " ")

\* glossary.postprocessTranslations(translations, glossaryMap) on the parsed
\* response of the translation capability
Postprocess(style) ==
    /\ pc = "prepared"
    /\ pc' = "restored"
    /\ ts' = [style |-> style]
    /\ result' = postprocessTranslations(
                     MapAssign(<<>>, [j \in 1..Len(wf.stringsForAPI) |->
                                         [k |-> wf.stringsForAPI[j],
                                          v |-> ApiReply(wf.stringsForAPI[j], style)]]),
                     wf.glossaryMap)
    /\ UNCHANGED <<opts, terms, cache, stats, disk, req, wf, runs, hist>>

GlossaryAddCall ==
    \E term \in GlossaryTerms, translations \in GlossaryTranslations,
       caseSensitive \in BOOLEAN, doNotTranslate \in BOOLEAN :
        AddTerm(term, translations, caseSensitive, doNotTranslate)

GlossaryPrepareCall ==
    \E strings \in Lists(GlossaryTexts, MaxStrings), targetLang \in {"es", "fr"} :
        Prepare(strings, targetLang)

GlossaryReply == \E style \in ReplyStyles : Postprocess(style)

NextGlossary ==
    \/ GlossaryAddCall
    \/ GlossaryPrepareCall
    \/ NoopPostprocess
    \/ GlossaryReply

SpecGlossary == InitGlossary /\ [][NextGlossary]_vars

(***************************************************************************)
(* SpecExclude: shouldExcludeText on markup assembled from a few tags, at  *)
(* the offsets where polygotParser's candidates start (the > before a text *)
(* run, a position inside a tag, the start of a tag, the end of the code)  *)
(***************************************************************************)

MaxFragments == 3

TagFragments ==
    {<<"<", "d", ">">>,
     <<"<", "D", " ", "i", "d", "=", "\"", "h", "\"", ">">>,
     <<"<", "p", " ", "c", "l", "a", "s", "s", "=", "\"", "x", " ", "y", "\"", ">">>,
     <<"<", "p", " ", "c", "l", "a", "s", "s", "=", "\"", "x", "\"", " ",
       "c", "l", "a", "s", "s", "N", "a", "m", "e", "=", "{", "'", "y", "'", "}", ">">>,
     <<"<", "/", "d", ">">>,
     <<"<", "/", "p", ">">>,
     <<"<", "d", " ", "i", "d", "=", "\"", "h", "\"", "/", ">">>}

RECURSIVE join(_)
join(parts) == IF parts = <<>> THEN <<>> ELSE Head(parts) \o join(Tail(parts))

TagCodes == {join(parts) : parts \in Lists(TagFragments, MaxFragments)}

CandidateOffsets(code) ==
    {p \in 0..Len(code) : p = Len(code) \/ code[p + 1] \in {"<", ">", " "}}

ExcludeTagLists ==
    {<<>>,
     <<<<"d">>>>,
     <<<<"d", "#", "h">>>>,
     <<<<"P", ".", "x">>>>,
     <<<<".", "y", ".", "x">>>>,
     <<<<"#", "h">>>>,
     <<<<"p", ".", "x", ".", "z">>, <<" ", "d", "#", "h", " ">>>>,
     <<<<>>>>}

InitExclude ==
    /\ opts = [memory |-> FALSE, glossary |-> FALSE]
    /\ terms = <<>>
    /\ cache = EmptyCache
    /\ stats = ZeroStats
    /\ disk = <<>>
    /\ pc = "idle"
    /\ req = None
    /\ wf = None
    /\ ts = None
    /\ result = None
    /\ runs = 0
    /\ hist = {}

ShouldExclude(code, position, excludeTags) ==
    /\ pc = "idle"
    /\ pc' = "done"
    /\ req' = [via |-> "exclude", code |-> code, position |-> position,
               excludeTags |-> excludeTags]
    /\ \E rules \in {parseExcludeRules(excludeTags)} :
           /\ wf' = [excludeRules |-> rules,
                     stack |-> openStack(code, position, 0, <<>>)]
           /\ result' = shouldExcludeText(code, position, rules)
    /\ ts' = None
    /\ UNCHANGED <<opts, terms, cache, stats, disk, runs, hist>>

ExcludeCall ==
    /\ pc = "idle"
    /\ \E code \in TagCodes, excludeTags \in ExcludeTagLists :
           \E position \in CandidateOffsets(code) :
               ShouldExclude(code, position, excludeTags)

NextExclude ==
    \/ ExcludeCall
    \/ Return

SpecExclude == InitExclude /\ [][NextExclude]_vars

(***************************************************************************)
(* SpecWrite: step 3 of parseAndTranslate, the loop that writes one locale *)
(* JSON file per language, and the value returned after it. A write either *)
(* succeeds or throws (writeFile rethrows mkdir and fs.writeFile errors).  *)
(***************************************************************************)

MaxLanguages == 2

OutputLanguages == {"es", "fr", "de"}

\* result.translations of one language
OutputTranslations ==
    {<<[k |-> <<"b">>, v |-> <<"Y">>]>>,
     <<[k |-> <<"b">>, v |-> <<"b">>], [k |-> <<"A">>, v |-> <<"A">>]>>}

\* locale files left in outputDir by an earlier run
ExistingOutputs ==
    {<<>>, <<[k |-> "es", v |-> <<[k |-> <<"a">>, v |-> <<"Y">>]>>]>>}

\* writeFile(filePath, content) with an object: the existing JSON document
\* is merged with the content, the content's keys winning
writeFile(outputs, langCode, content) ==
    MapSet(outputs, langCode,
           MapAssign(IF MapHas(outputs, langCode) THEN MapGet(outputs, langCode) ELSE <<>>,
                     content))

InitWrite ==
    /\ opts = [memory |-> FALSE, glossary |-> FALSE]
    /\ terms = <<>>
    /\ cache = EmptyCache
    /\ stats = ZeroStats
    /\ disk = <<>>
    /\ pc = "idle"
    /\ req = None
    /\ wf = None
    /\ ts = None
    /\ result = None
    /\ runs = 0
    /\ hist = {}

\* translationResults is keyed by language, so a language named twice is
\* written once
StartWrite(languages, translations, existing) ==
    /\ pc = "idle"
    /\ pc' = "writing"
    /\ req' = [via |-> "write", languages |-> languages]
    /\ wf' = [translationResults |->
                  MapAssign(<<>>, [n \in 1..Len(languages) |->
                                      [k |-> languages[n], v |-> translations[n]]]),
              i |-> 1,
              writtenFiles |-> <<>>,
              outputs |-> existing]
    /\ UNCHANGED <<opts, terms, cache, stats, disk, ts, result, runs, hist>>

\* one pass of the loop: the write succeeds, or it throws and the catch
\* logs the error
WriteOne(succeeds) ==
    /\ pc = "writing"
    /\ wf.i <= Len(wf.translationResults)
    /\ wf' = IF succeeds
             THEN [wf EXCEPT !.i = @ + 1,
                             !.writtenFiles = Append(@, wf.translationResults[wf.i].k),
                             !.outputs = writeFile(@, wf.translationResults[wf.i].k,
                                                   wf.translationResults[wf.i].v)]
             ELSE [wf EXCEPT !.i = @ + 1]
    /\ UNCHANGED <<opts, terms, cache, stats, disk, pc, req, ts, result, runs, hist>>

FinishWrite ==
    /\ pc = "writing"
    /\ wf.i > Len(wf.translationResults)
    /\ pc' = "done"
    /\ result' = [success |-> TRUE, files |-> wf.writtenFiles,
                  languages |-> req.languages]
    /\ UNCHANGED <<opts, terms, cache, stats, disk, req, wf, ts, runs, hist>>

WriteCall ==
    /\ pc = "idle"
    /\ \E k \in 1..MaxLanguages :
           \E languages \in [1..k -> OutputLanguages],
              translations \in [1..k -> OutputTranslations],
              existing \in ExistingOutputs :
               StartWrite(languages, translations, existing)

WriteStep == \E succeeds \in BOOLEAN : WriteOne(succeeds)

NextWrite ==
    \/ WriteCall
    \/ WriteStep
    \/ FinishWrite
    \/ Return

SpecWrite == InitWrite /\ [][NextWrite]_vars

(***************************************************************************)
(* SpecSave: TranslationMemoryStore.save as the file system performs it.   *)
(* fs.writeFile opens memory.json with truncation and then writes the      *)
(* serialised document piece by piece (the header with the metadata and    *)
(* the stats, one piece per entry, the closing bracket); the process can   *)
(* stop at any point. Here disk = [data, written]: the document being      *)
(* written and the number of its pieces that are in the file.              *)
(***************************************************************************)

\* the number of pieces of JSON.stringify(data, null, 2)
DocSize(data) == Cardinality(DOMAIN data.cache) + 2

\* JSON.parse(content) succeeds
Parses(file) == file.written = DocSize(file.data)

InitSave ==
    /\ opts = [memory |-> TRUE, glossary |-> FALSE]
    /\ terms = <<>>
    /\ cache = EmptyCache
    /\ stats = ZeroStats
    /\ disk = [data |-> [cache |-> EmptyCache, stats |-> ZeroStats], written |-> 2]
    /\ pc = "idle"
    /\ req = None
    /\ wf = None
    /\ ts = [lastSaved |-> [cache |-> EmptyCache, stats |-> ZeroStats]]
    /\ result = None
    /\ runs = 0
    /\ hist = {}

\* memory.set between two saves
SaveAdd(sourceText, translation, sourceLang, targetLang) ==
    /\ pc = "idle"
    /\ runs < MaxOps
    /\ runs' = runs + 1
    /\ \E r \in {MemorySet(store, sourceText, translation, sourceLang, targetLang, FALSE)} :
           /\ cache' = r.store.cache
           /\ stats' = r.store.stats
    /\ UNCHANGED <<opts, terms, disk, pc, req, wf, ts, result, hist>>

\* save(): the document is built and the file is opened, which empties it
BeginSave ==
    /\ pc = "idle"
    /\ pc' = "saving"
    /\ disk' = [data |-> store, written |-> 0]
    /\ UNCHANGED <<opts, terms, cache, stats, req, wf, ts, result, runs, hist>>

WritePiece ==
    /\ pc = "saving"
    /\ disk.written < DocSize(disk.data)
    /\ disk' = [disk EXCEPT !.written = @ + 1]
    /\ UNCHANGED <<opts, terms, cache, stats, pc, req, wf, ts, result, runs, hist>>

\* the promise of fs.writeFile resolves
EndSave ==
    /\ pc = "saving"
    /\ disk.written = DocSize(disk.data)
    /\ pc' = "idle"
    /\ ts' = [lastSaved |-> disk.data]
    /\ UNCHANGED <<opts, terms, cache, stats, disk, req, wf, result, runs, hist>>

\* the process stops; what is in memory is gone, the file stays as it is
Crash ==
    /\ pc \in {"idle", "saving"}
    /\ pc' = "crashed"
    /\ cache' = EmptyCache
    /\ stats' = ZeroStats
    /\ UNCHANGED <<opts, terms, disk, req, wf, ts, result, runs, hist>>

\* a new process: initialize() -> load(); a document that does not parse is
\* reported on the console and the store starts empty
Restart ==
    /\ pc = "crashed"
    /\ pc' = "idle"
    /\ cache' = IF Parses(disk) THEN disk.data.cache ELSE EmptyCache
    /\ stats' = IF Parses(disk) THEN disk.data.stats ELSE ZeroStats
    /\ UNCHANGED <<opts, terms, disk, req, wf, ts, result, runs, hist>>

SaveAddCall ==
    \E sourceText \in MemoryTexts, translation \in {<<"Y">>, <<"b">>},
       pair \in MemoryLangPairs :
        SaveAdd(sourceText, translation, pair[1], pair[2])

NextSave ==
    \/ SaveAddCall
    \/ BeginSave
    \/ WritePiece
    \/ EndSave
    \/ Crash
    \/ Restart

SpecSave == InitSave /\ [][NextSave]_vars

(***************************************************************************)
(* SpecAutoSave: a long series of awaited set() calls on one store, with   *)
(* explicit save() calls and restarts of the process in between. Here      *)
(* disk = <<the store as last written to memory.json>> and ts.unsaved      *)
(* counts the set() calls since a write of memory.json last completed.     *)
(***************************************************************************)

MaxAdds == 102

InitAutoSave ==
    /\ opts = [memory |-> TRUE, glossary |-> FALSE]
    /\ terms = <<>>
    /\ cache = EmptyCache
    /\ stats = ZeroStats
    /\ disk = <<[cache |-> EmptyCache, stats |-> ZeroStats]>>
    /\ pc = "idle"
    /\ req = None
    /\ wf = None
    /\ ts = [unsaved |-> 0]
    /\ result = None
    /\ runs = 0
    /\ hist = {}

\* await memory.set(sourceText, translation, "en", "es"), its auto-save
\* included
AutoSet(sourceText, translation) ==
    /\ runs < MaxAdds
    /\ runs' = runs + 1
    /\ \E r \in {MemorySet(store, sourceText, translation, "en", "es", FALSE)} :
           /\ cache' = r.store.cache
           /\ stats' = r.store.stats
           /\ disk' = IF r.save THEN <<r.store>> ELSE disk
           /\ ts' = [unsaved |-> IF r.save THEN 0 ELSE ts.unsaved + 1]
    /\ result' = [op |-> "set"]
    /\ UNCHANGED <<opts, terms, pc, req, wf, hist>>

\* await memory.save()
ExplicitSave ==
    /\ result # [op |-> "save"]
    /\ disk' = <<store>>
    /\ ts' = [unsaved |-> 0]
    /\ result' = [op |-> "save"]
    /\ UNCHANGED <<opts, terms, cache, stats, pc, req, wf, runs, hist>>

\* the process ends and a new one calls initialize(): load() takes the
\* entries and the stats from memory.json
Reload ==
    /\ result # [op |-> "load"]
    /\ cache' = disk[1].cache
    /\ stats' = disk[1].stats
    /\ ts' = [unsaved |-> 0]
    /\ result' = [op |-> "load"]
    /\ UNCHANGED <<opts, terms, disk, pc, req, wf, runs, hist>>

AutoSetCall ==
    \E sourceText \in {<<"b">>, <<"A">>} : AutoSet(sourceText, <<"Y">>)

NextAutoSave ==
    \/ AutoSetCall
    \/ ExplicitSave
    \/ Reload

SpecAutoSave == InitAutoSave /\ [][NextAutoSave]_vars

(***************************************************************************)
(* SpecEntries: every operation of one TranslationMemoryStore that reads   *)
(* or changes entries. Here hist is what the caller has stored and not     *)
(* taken back: one record [text, sourceLang, targetLang, translation] per  *)
(* trimmed source text and language pair, written by set and update of     *)
(* that text, removed by its delete and by clear.                          *)
(***************************************************************************)

\* "Y", " b"
EntryTranslations == {<<"Y">>, <<" ", "b">>}

InitEntries ==
    /\ opts = [memory |-> TRUE, glossary |-> FALSE]
    /\ terms = <<>>
    /\ cache = EmptyCache
    /\ stats = ZeroStats
    /\ disk = <<[cache |-> EmptyCache, stats |-> ZeroStats]>>
    /\ pc = "idle"
    /\ req = None
    /\ wf = None
    /\ ts = None
    /\ result = None
    /\ runs = 0
    /\ hist = {}

\* the records of hist for a trimmed text and a language pair
Kept(text, sourceLang, targetLang) ==
    {h \in hist : h.text = trim(text) /\ h.sourceLang = sourceLang
                  /\ h.targetLang = targetLang}

EntryOp(op, sourceText, sourceLang, targetLang) ==
    [op |-> op, text |-> sourceText, sourceLang |-> sourceLang, targetLang |-> targetLang]

\* await memory.set(sourceText, translation, sourceLang, targetLang)
EntrySet(sourceText, translation, sourceLang, targetLang) ==
    /\ runs < MaxOps
    /\ runs' = runs + 1
    /\ \E r \in {MemorySet(store, sourceText, translation, sourceLang, targetLang, FALSE)} :
           /\ cache' = r.store.cache
           /\ stats' = r.store.stats
           /\ disk' = IF r.save THEN <<r.store>> ELSE disk
    /\ hist' = (hist \ Kept(sourceText, sourceLang, targetLang))
               \cup {SetRecord(sourceText, translation, sourceLang, targetLang)}
    /\ result' = EntryOp("set", sourceText, sourceLang, targetLang)
    /\ UNCHANGED <<opts, terms, pc, req, wf, ts>>

\* await memory.get(sourceText, sourceLang, targetLang)
EntryGet(sourceText, sourceLang, targetLang) ==
    /\ runs < MaxOps
    /\ runs' = runs + 1
    /\ \E r \in {MemoryGet(store, sourceText, sourceLang, targetLang)} :
           /\ cache' = r.store.cache
           /\ stats' = r.store.stats
    /\ result' = EntryOp("get", sourceText, sourceLang, targetLang)
    /\ UNCHANGED <<opts, terms, disk, pc, req, wf, ts, hist>>

\* await memory.update(sourceText, newTranslation, sourceLang, targetLang)
EntryUpdate(sourceText, newTranslation, sourceLang, targetLang) ==
    /\ runs < MaxOps
    /\ runs' = runs + 1
    /\ \E r \in {MemoryUpdate(store, sourceText, newTranslation, sourceLang, targetLang)} :
           /\ cache' = r.store.cache
           /\ stats' = r.store.stats
           /\ disk' = IF r.value THEN <<r.store>> ELSE disk
    /\ hist' = IF Kept(sourceText, sourceLang, targetLang) = {} THEN hist
               ELSE (hist \ Kept(sourceText, sourceLang, targetLang))
                    \cup {SetRecord(sourceText, newTranslation, sourceLang, targetLang)}
    /\ result' = EntryOp("update", sourceText, sourceLang, targetLang)
    /\ UNCHANGED <<opts, terms, pc, req, wf, ts>>

\* await memory.verify(sourceText, sourceLang, targetLang)
EntryVerify(sourceText, sourceLang, targetLang) ==
    /\ runs < MaxOps
    /\ runs' = runs + 1
    /\ \E r \in {MemoryVerify(store, sourceText, sourceLang, targetLang)} :
           /\ cache' = r.store.cache
           /\ stats' = r.store.stats
           /\ disk' = IF r.value THEN <<r.store>> ELSE disk
    /\ result' = EntryOp("verify", sourceText, sourceLang, targetLang)
    /\ UNCHANGED <<opts, terms, pc, req, wf, ts, hist>>

\* await memory.delete(sourceText, sourceLang, targetLang)
EntryDelete(sourceText, sourceLang, targetLang) ==
    /\ runs < MaxOps
    /\ runs' = runs + 1
    /\ \E r \in {MemoryDelete(store, sourceText, sourceLang, targetLang)} :
           /\ cache' = r.store.cache
           /\ stats' = r.store.stats
           /\ disk' = IF r.value THEN <<r.store>> ELSE disk
    /\ hist' = hist \ Kept(sourceText, sourceLang, targetLang)
    /\ result' = EntryOp("delete", sourceText, sourceLang, targetLang)
    /\ UNCHANGED <<opts, terms, pc, req, wf, ts>>

\* await memory.save()
EntrySave ==
    /\ runs < MaxOps
    /\ runs' = runs + 1
    /\ disk' = <<store>>
    /\ result' = [op |-> "save"]
    /\ UNCHANGED <<opts, terms, cache, stats, pc, req, wf, ts, hist>>

\* await memory.clear()
EntryClear ==
    /\ runs < MaxOps
    /\ runs' = runs + 1
    /\ cache' = EmptyCache
    /\ stats' = ZeroStats
    /\ disk' = <<[cache |-> EmptyCache, stats |-> ZeroStats]>>
    /\ hist' = {}
    /\ result' = [op |-> "clear"]
    /\ UNCHANGED <<opts, terms, pc, req, wf, ts>>

EntryWriteCall ==
    \E sourceText \in MemoryTexts, translation \in EntryTranslations,
       pair \in MemoryLangPairs :
        \/ EntrySet(sourceText, translation, pair[1], pair[2])
        \/ EntryUpdate(sourceText, translation, pair[1], pair[2])

EntryKeyCall ==
    \E sourceText \in MemoryTexts, pair \in MemoryLangPairs :
        \/ EntryGet(sourceText, pair[1], pair[2])
        \/ EntryVerify(sourceText, pair[1], pair[2])
        \/ EntryDelete(sourceText, pair[1], pair[2])

NextEntries ==
    \/ EntryWriteCall
    \/ EntryKeyCall
    \/ EntrySave
    \/ EntryClear

SpecEntries == InitEntries /\ [][NextEntries]_vars

(***************************************************************************)
(* SpecGlossaryFile: add, update, delete and clear on one GlossaryManager, *)
(* each with the save() it awaits. Here disk = <<the terms array of        *)
(* glossary.json>>; the manager starts as initialize() leaves it when      *)
(* there is no file yet.                                                   *)
(***************************************************************************)

\* "A", "a", " A"
FileTerms == {<<"A">>, <<"a">>, <<" ", "A">>}
CaseOptions == {"true", "false", "undefined"}

InitGlossaryFile ==
    /\ opts = [memory |-> FALSE, glossary |-> TRUE]
    /\ terms = <<>>
    /\ cache = EmptyCache
    /\ stats = ZeroStats
    /\ disk = <<savedTerms(<<>>)>>
    /\ pc = "idle"
    /\ req = None
    /\ wf = None
    /\ ts = None
    /\ result = None
    /\ runs = 0
    /\ hist = {}

\* await glossary.add(term, translations, { caseSensitive, doNotTranslate })
FileAdd(term, translations, caseSensitive, doNotTranslate) ==
    /\ runs < MaxOps
    /\ runs' = runs + 1
    /\ terms' = GlossaryAddOption(terms, term, translations, caseSensitive, doNotTranslate)
    /\ disk' = <<savedTerms(terms')>>
    /\ result' = [op |-> "add"]
    /\ UNCHANGED <<opts, cache, stats, pc, req, wf, ts, hist>>

\* await glossary.update(term, updates, caseSensitive)
FileUpdate(term, translations, doNotTranslate, caseSensitive) ==
    /\ runs < MaxOps
    /\ runs' = runs + 1
    /\ \E r \in {GlossaryUpdate(terms, term, translations, doNotTranslate, caseSensitive)} :
           /\ terms' = r.terms
           /\ disk' = IF r.value THEN <<savedTerms(r.terms)>> ELSE disk
           /\ result' = [op |-> "update", value |-> r.value]
    /\ UNCHANGED <<opts, cache, stats, pc, req, wf, ts, hist>>

\* await glossary.delete(term, caseSensitive)
FileDelete(term, caseSensitive) ==
    /\ runs < MaxOps
    /\ runs' = runs + 1
    /\ \E r \in {GlossaryDelete(terms, term, caseSensitive)} :
           /\ terms' = r.terms
           /\ disk' = IF r.value THEN <<savedTerms(r.terms)>> ELSE disk
           /\ result' = [op |-> "delete", value |-> r.value]
    /\ UNCHANGED <<opts, cache, stats, pc, req, wf, ts, hist>>

\* await glossary.clear()
FileClear ==
    /\ runs < MaxOps
    /\ runs' = runs + 1
    /\ terms' = <<>>
    /\ disk' = <<savedTerms(<<>>)>>
    /\ result' = [op |-> "clear"]
    /\ UNCHANGED <<opts, cache, stats, pc, req, wf, ts, hist>>

FileAddCall ==
    \E term \in FileTerms, translations \in {NoTranslations, [l \in {"es"} |-> <<"Y">>]},
       caseSensitive \in CaseOptions, doNotTranslate \in BOOLEAN :
        FileAdd(term, translations, caseSensitive, doNotTranslate)

FileUpdateCall ==
    \E term \in FileTerms,
       translations \in {<<>>, <<[l \in {"fr"} |-> <<"b">>]>>},
       doNotTranslate \in {"true", "undefined"}, caseSensitive \in BOOLEAN :
        FileUpdate(term, translations, doNotTranslate, caseSensitive)

FileDeleteCall ==
    \E term \in FileTerms, caseSensitive \in BOOLEAN : FileDelete(term, caseSensitive)

NextGlossaryFile ==
    \/ FileAddCall
    \/ FileUpdateCall
    \/ FileDeleteCall
    \/ FileClear

SpecGlossaryFile == InitGlossaryFile /\ [][NextGlossaryFile]_vars

(***************************************************************************)
(* SpecInitialize: initialize() of a GlossaryManager and of a              *)
(* TranslationMemoryStore on the files a previous process left, followed   *)
(* by mutations. Here disk = [glossary, memory], each file                 *)
(* [status, data]: "missing" (readFile fails with ENOENT), "malformed"     *)
(* (JSON.parse throws; data is the document the damaged file was written   *)
(* from) or "ok"; pc = [glossary, memory] is "new", "ready" (initialize    *)
(* returned) or "failed" (it threw); hist is the disk at the start.        *)
(***************************************************************************)

MissingFile == [status |-> "missing", data |-> <<>>]
OkFile(data) == [status |-> "ok", data |-> <<data>>]
MalformedFile(data) == [status |-> "malformed", data |-> <<data>>]

GlossaryDocuments ==
    {savedTerms(<<>>),
     savedTerms(GlossaryAdd(<<>>, <<"A">>, [l \in {"es"} |-> <<"Y">>], TRUE, FALSE))}

MemoryDocuments ==
    {[cache |-> EmptyCache, stats |-> ZeroStats],
     MemorySet([cache |-> EmptyCache, stats |-> ZeroStats],
               <<"b">>, <<"Y">>, "en", "es", FALSE).store}

FilesOf(documents) ==
    {MissingFile} \cup {OkFile(d) : d \in documents}
                  \cup {MalformedFile(d) : d \in documents}

InitInitialize ==
    /\ opts = [memory |-> TRUE, glossary |-> TRUE]
    /\ terms = <<>>
    /\ cache = EmptyCache
    /\ stats = ZeroStats
    /\ disk \in [glossary : FilesOf(GlossaryDocuments), memory : FilesOf(MemoryDocuments)]
    /\ pc = [glossary |-> "new", memory |-> "new"]
    /\ req = None
    /\ wf = None
    /\ ts = None
    /\ result = None
    /\ runs = 0
    /\ hist = disk

\* await glossary.initialize(): mkdir, then load(), which reads and parses
\* the file, saves an empty glossary when there is none, and logs any
\* other error without rethrowing it
GlossaryInitialize(mkdirFails) ==
    /\ pc.glossary = "new"
    /\ IF mkdirFails
       THEN /\ pc' = [pc EXCEPT !.glossary = "failed"]
            /\ result' = [op |-> "initialize", of |-> "glossary", threw |-> TRUE]
            /\ UNCHANGED <<terms, disk>>
       ELSE /\ pc' = [pc EXCEPT !.glossary = "ready"]
            /\ result' = [op |-> "initialize", of |-> "glossary", threw |-> FALSE]
            /\ terms' = IF disk.glossary.status = "ok"
                        THEN loadTerms(disk.glossary.data[1]) ELSE terms
            /\ disk' = IF disk.glossary.status = "missing"
                       THEN [disk EXCEPT !.glossary = OkFile(savedTerms(terms))]
                       ELSE disk
    /\ UNCHANGED <<opts, cache, stats, req, wf, ts, runs, hist>>

\* await memory.initialize()
MemoryInitialize(mkdirFails) ==
    /\ pc.memory = "new"
    /\ IF mkdirFails
       THEN /\ pc' = [pc EXCEPT !.memory = "failed"]
            /\ result' = [op |-> "initialize", of |-> "memory", threw |-> TRUE]
            /\ UNCHANGED <<cache, stats, disk>>
       ELSE /\ pc' = [pc EXCEPT !.memory = "ready"]
            /\ result' = [op |-> "initialize", of |-> "memory", threw |-> FALSE]
            /\ cache' = IF disk.memory.status = "ok"
                        THEN disk.memory.data[1].cache ELSE cache
            /\ stats' = IF disk.memory.status = "ok"
                        THEN disk.memory.data[1].stats ELSE stats
            /\ disk' = IF disk.memory.status = "missing"
                       THEN [disk EXCEPT !.memory = OkFile(store)]
                       ELSE disk
    /\ UNCHANGED <<opts, terms, req, wf, ts, runs, hist>>

\* await glossary.add(term, {}, {}) on the initialized manager
InitializedAdd(term) ==
    /\ pc.glossary = "ready"
    /\ runs < MaxOps
    /\ runs' = runs + 1
    /\ terms' = GlossaryAddOption(terms, term, NoTranslations, "undefined", FALSE)
    /\ disk' = [disk EXCEPT !.glossary = OkFile(savedTerms(terms'))]
    /\ result' = [op |-> "add"]
    /\ UNCHANGED <<opts, cache, stats, pc, req, wf, ts, hist>>

\* await memory.set(sourceText, "Y", "en", "es") on the initialized store
InitializedSet(sourceText) ==
    /\ pc.memory = "ready"
    /\ runs < MaxOps
    /\ runs' = runs + 1
    /\ \E r \in {MemorySet(store, sourceText, <<"Y">>, "en", "es", FALSE)} :
           /\ cache' = r.store.cache
           /\ stats' = r.store.stats
           /\ disk' = IF r.save THEN [disk EXCEPT !.memory = OkFile(r.store)] ELSE disk
    /\ result' = [op |-> "set"]
    /\ UNCHANGED <<opts, terms, pc, req, wf, ts, hist>>

\* await memory.save() on the initialized store
InitializedSave ==
    /\ pc.memory = "ready"
    /\ result # [op |-> "save"]
    /\ disk' = [disk EXCEPT !.memory = OkFile(store)]
    /\ result' = [op |-> "save"]
    /\ UNCHANGED <<opts, terms, cache, stats, pc, req, wf, ts, runs, hist>>

GlossaryInitializeCall == \E mkdirFails \in BOOLEAN : GlossaryInitialize(mkdirFails)
MemoryInitializeCall == \E mkdirFails \in BOOLEAN : MemoryInitialize(mkdirFails)
InitializedAddCall == \E term \in {<<"b">>, <<"A">>} : InitializedAdd(term)
InitializedSetCall == \E sourceText \in {<<"b">>, <<"A">>} : InitializedSet(sourceText)

NextInitialize ==
    \/ GlossaryInitializeCall
    \/ MemoryInitializeCall
    \/ InitializedAddCall
    \/ InitializedSetCall
    \/ InitializedSave

SpecInitialize == InitInitialize /\ [][NextInitialize]_vars

(***************************************************************************)
(* SpecParser: repeated calls of polygotParser. A call and its return are  *)
(* one step (the function is synchronous); req and result hold the latest  *)
(* call and its return value. hist remembers one earlier call, chosen      *)
(* freely, with the set it returned and whether a call with other          *)
(* arguments has been made since.                                          *)
(***************************************************************************)

MaxParses == 3

\* a parser whose Set of strings outlives the call: the strings returned by
\* the previous call are still in it
polygotParserShared(code, visibleAttributes, excludeTags) ==
    finalStrings((IF runs = 0 THEN <<>> ELSE result)
                 \o extractStrings(code, visibleAttributes, excludeTags))

polygotParser(code, visibleAttributes, excludeTags) ==
    finalStrings(extractStrings(code, visibleAttributes, excludeTags))

ParserCodes ==
   {
    \* <p>Hi</p>
    <<"<", "p", ">", "H", "i", "<", "/", "p", ">">>,
    \* <d id="h"><p>Hi</p></d><p>By</p>
    <<"<", "d", " ", "i", "d", "=", "\"", "h", "\"", ">", "<", "p", ">", "H",
        "i", "<", "/", "p", ">", "<", "/", "d", ">", "<", "p", ">", "B", "y",
        "<", "/", "p", ">">>,
    \* <i alt="Hi" data-x="By"/>{"Yo"}
    <<"<", "i", " ", "a", "l", "t", "=", "\"", "H", "i", "\"", " ", "d", "a",
        "t", "a", "-", "x", "=", "\"", "B", "y", "\"", "/", ">", "{", "\"",
        "Y", "o", "\"", "}">>,
    \* <p>a&amp;b</p>/*<p>c</p>*/<p> </p>
    <<"<", "p", ">", "a", "&", "a", "m", "p", ";", "b", "<", "/", "p", ">", "/",
        "*", "<", "p", ">", "c", "<", "/", "p", ">", "*", "/", "<", "p", ">",
        " ", "<", "/", "p", ">">>,
    \* <p>{x ? 'Hi' : (backtick)By(backtick)}</p>//<p>c</p>\n<p>;</p>
    <<"<", "p", ">", "{", "x", " ", "?", " ", "'", "H", "i", "'", " ", ":", " ",
        Backtick, "B", "y", Backtick, "}", "<", "/", "p", ">", "/", "/", "<",
        "p", ">", "c", "<", "/", "p", ">", "\n", "<", "p", ">", ";", "<", "/",
        "p", ">">>,
    \* <p>Hi</p><d id="h" alt="By">Hi</d>
    <<"<", "p", ">", "H", "i", "<", "/", "p", ">", "<", "d", " ", "i", "d", "=",
        "\"", "h", "\"", " ", "a", "l", "t", "=", "\"", "B", "y", "\"", ">",
        "H", "i", "<", "/", "d", ">">>,
    \* <p>a&amp;b</p><p>a&b</p><p>&nbsp;</p>
    <<"<", "p", ">", "a", "&", "a", "m", "p", ";", "b", "<", "/", "p", ">", "<",
        "p", ">", "a", "&", "b", "<", "/", "p", ">", "<", "p", ">", "&", "n",
        "b", "s", "p", ";", "<", "/", "p", ">">>
   }

VisibleAttributeLists ==
    {<<<<"a", "l", "t">>>>,
     <<<<"d", "a", "t", "a", "-", "*">>, <<"a", "l", "t">>>>}

ParserExcludeTags == {<<>>, <<<<"d", "#", "h">>>>}

InitParser ==
    /\ opts = [memory |-> FALSE, glossary |-> FALSE]
    /\ terms = <<>>
    /\ cache = EmptyCache
    /\ stats = ZeroStats
    /\ disk = <<>>
    /\ pc = "idle"
    /\ req = None
    /\ wf = None
    /\ ts = None
    /\ result = None
    /\ runs = 0
    /\ hist = {}

SameArguments(h, code, visibleAttributes, excludeTags) ==
    /\ h.code = code
    /\ h.visibleAttributes = visibleAttributes
    /\ h.excludeTags = excludeTags

Parse(code, visibleAttributes, excludeTags) ==
    /\ runs < MaxParses
    /\ runs' = runs + 1
    /\ req' = [via |-> "parser", code |-> code,
               visibleAttributes |-> visibleAttributes, excludeTags |-> excludeTags]
    /\ \E strings \in {polygotParser(code, visibleAttributes, excludeTags)} :
           /\ result' = strings
           /\ IF hist = {}
              THEN hist' \in {{}, {[code |-> code,
                                    visibleAttributes |-> visibleAttributes,
                                    excludeTags |-> excludeTags,
                                    strings |-> SeqToSet(strings),
                                    others |-> FALSE]}}
              ELSE hist' = {[h EXCEPT !.others =
                                @ \/ ~SameArguments(h, code, visibleAttributes, excludeTags)] :
                            h \in hist}
    /\ UNCHANGED <<opts, terms, cache, stats, disk, pc, wf, ts>>

ParseCall ==
    \E code \in ParserCodes, visibleAttributes \in VisibleAttributeLists,
       excludeTags \in ParserExcludeTags :
        Parse(code, visibleAttributes, excludeTags)

NextParser == ParseCall

SpecParser == InitParser /\ [][NextParser]_vars

(***************************************************************************)
(* SpecChunkLoop: the loop of translateStrings that splits the work set    *)
(* into chunks, one iteration per step. ts = [uniqueStrings, i, chunks,    *)
(* turn]; pc is "idle", "splitting" (inside the for statement) or "split"  *)
(* (past it). The loop is scheduled fairly: an iteration that can run      *)
(* does run. Beyond MaxPushes chunks the state keeps only that the loop is *)
(* still running: chunks and i stay and turn alternates.                   *)
(***************************************************************************)

MaxPushes == 4

\* --chunk-size as parseInt gives it, or options.maxChunkSize of a caller
LoopChunkSizes == {-2, -1, 0, 1, 2, 50}

\* Array.prototype.slice(start, end): a negative index counts from the end
arraySlice(list, start, end) ==
    LET rel(k) == IF k < 0 THEN (IF Len(list) + k < 0 THEN 0 ELSE Len(list) + k)
                  ELSE IF k > Len(list) THEN Len(list) ELSE k
    IN  IF rel(start) >= rel(end) THEN <<>> ELSE SubSeq(list, rel(start) + 1, rel(end))

InitChunkLoop ==
    /\ opts = [memory |-> FALSE, glossary |-> FALSE]
    /\ terms = <<>>
    /\ cache = EmptyCache
    /\ stats = ZeroStats
    /\ disk = <<>>
    /\ pc = "idle"
    /\ req = None
    /\ wf = None
    /\ ts = None
    /\ result = None
    /\ runs = 0
    /\ hist = {}

\* translateStrings up to the for statement, with valid language and key
SplitStart(strings, maxChunkSize) ==
    /\ pc = "idle"
    /\ runs < MaxRuns
    /\ strings # <<>>
    /\ runs' = runs + 1
    /\ pc' = "splitting"
    /\ req' = [via |-> "split", strings |-> strings, maxChunkSize |-> maxChunkSize]
    /\ ts' = [uniqueStrings |-> uniqueStrings(strings), i |-> 0, chunks |-> <<>>,
              turn |-> 0]
    /\ UNCHANGED <<opts, terms, cache, stats, disk, wf, result, hist>>

\* one iteration: i < uniqueStrings.length, chunks.push(slice(i, i + size)),
\* i += size
LoopStep ==
    /\ pc = "splitting"
    /\ ts.i < Len(ts.uniqueStrings)
    /\ ts' = IF Len(ts.chunks) < MaxPushes
             THEN [ts EXCEPT !.chunks = Append(@, arraySlice(ts.uniqueStrings, ts.i,
                                                             ts.i + req.maxChunkSize)),
                             !.i = @ + req.maxChunkSize]
             ELSE [ts EXCEPT !.turn = 1 - @]
    /\ UNCHANGED <<opts, terms, cache, stats, disk, pc, req, wf, result, runs, hist>>

\* the condition i < uniqueStrings.length is false: the loop is left
LoopExit ==
    /\ pc = "splitting"
    /\ ts.i >= Len(ts.uniqueStrings)
    /\ pc' = "split"
    /\ result' = [chunks |-> ts.chunks]
    /\ UNCHANGED <<opts, terms, cache, stats, disk, req, wf, ts, runs, hist>>

\* the rest of the call, and the next one
SplitReturn ==
    /\ pc = "split"
    /\ pc' = "idle"
    /\ req' = None
    /\ ts' = None
    /\ result' = None
    /\ UNCHANGED <<opts, terms, cache, stats, disk, wf, runs, hist>>

SplitCall ==
    /\ pc = "idle"
    /\ \E strings \in Lists(ChunkTexts, MaxChunkStrings),
          maxChunkSize \in LoopChunkSizes :
           SplitStart(strings, maxChunkSize)

NextChunkLoop ==
    \/ SplitCall
    \/ LoopStep
    \/ LoopExit
    \/ SplitReturn

SpecChunkLoop ==
    InitChunkLoop /\ [][NextChunkLoop]_vars /\ WF_vars(LoopStep) /\ WF_vars(LoopExit)

(***************************************************************************)
(* SpecBatchSet: TranslationMemoryStore.batchSet with the writes of        *)
(* memory.json it starts. The map over the entries calls set() for one     *)
(* entry after the other; each set() runs up to its await, and no callback *)
(* runs before the map is through, so a write completes only while         *)
(* batchSet awaits Promise.all, in any order. Here ts = [pending,          *)
(* inflight, newest]: the entries the map has not reached, the snapshots   *)
(* whose fs.writeFile is in flight and the snapshot of the save() started  *)
(* last (<<>> before the first); disk is <<the snapshot last written>>.    *)
(***************************************************************************)

MaxBatches == 2

\* the numbers of translations handed to one batchSet
BatchSizes == {1, 2, SaveEvery + 1, SaveEvery + 2}

\* stats.additions as load() took it from memory.json
LoadedAdditions == {0, 1, SaveEvery - 2, SaveEvery - 1}

\* an object of n translations with distinct source texts b1, b2, b3, ...
BatchOf(n) == [i \in 1..n |-> [k |-> <<"b">> \o Digits(i), v |-> <<"Y">>]]

InitBatchSet ==
    /\ opts = [memory |-> TRUE, glossary |-> FALSE]
    /\ terms = <<>>
    /\ cache = EmptyCache
    /\ stats \in {[ZeroStats EXCEPT !.additions = n] : n \in LoadedAdditions}
    /\ disk = <<store>>
    /\ pc = "idle"
    /\ req = None
    /\ wf = None
    /\ ts = [pending |-> <<>>, inflight |-> <<>>, newest |-> <<>>]
    /\ result = None
    /\ runs = 0
    /\ hist = {}

\* memory.batchSet(translations, "en", "es") is called
BatchSetStart(translations) ==
    /\ pc = "idle"
    /\ runs < MaxBatches
    /\ runs' = runs + 1
    /\ pc' = "mapping"
    /\ req' = [via |-> "batchSet", size |-> Len(translations)]
    /\ ts' = [ts EXCEPT !.pending = translations]
    /\ UNCHANGED <<opts, terms, cache, stats, disk, wf, result, hist>>

\* the map calls set() for the next entry: the store is changed, and on
\* every 50th addition save() serialises the store as it now is and starts
\* fs.writeFile
MapEntry ==
    /\ pc = "mapping"
    /\ ts.pending # <<>>
    /\ \E r \in {MemorySet(store, Head(ts.pending).k, Head(ts.pending).v,
                           "en", "es", FALSE)} :
           /\ cache' = r.store.cache
           /\ stats' = r.store.stats
           /\ ts' = [pending |-> Tail(ts.pending),
                     inflight |-> IF r.save THEN Append(ts.inflight, r.store)
                                  ELSE ts.inflight,
                     newest |-> IF r.save THEN <<r.store>> ELSE ts.newest]
    /\ UNCHANGED <<opts, terms, disk, pc, req, wf, result, runs, hist>>

\* the map is through: await Promise.all(promises)
MapDone ==
    /\ pc = "mapping"
    /\ ts.pending = <<>>
    /\ pc' = "awaiting"
    /\ UNCHANGED <<opts, terms, cache, stats, disk, req, wf, ts, result, runs, hist>>

\* one fs.writeFile in flight completes: the file holds its snapshot
WriteCompletes(w) ==
    /\ pc = "awaiting"
    /\ w \in 1..Len(ts.inflight)
    /\ disk' = <<ts.inflight[w]>>
    /\ ts' = [ts EXCEPT !.inflight = SubSeq(@, 1, w - 1) \o SubSeq(@, w + 1, Len(@))]
    /\ UNCHANGED <<opts, terms, cache, stats, pc, req, wf, result, runs, hist>>

\* Promise.all resolves: every set() of the batch has returned
BatchSetDone ==
    /\ pc = "awaiting"
    /\ ts.inflight = <<>>
    /\ pc' = "idle"
    /\ result' = [op |-> "batchSet", size |-> req.size]
    /\ UNCHANGED <<opts, terms, cache, stats, disk, req, wf, ts, runs, hist>>

BatchSetCall ==
    /\ pc = "idle"
    /\ \E n \in BatchSizes : BatchSetStart(BatchOf(n))

WriteCompletesCall == \E w \in 1..2 : WriteCompletes(w)

NextBatchSet ==
    \/ BatchSetCall
    \/ MapEntry
    \/ MapDone
    \/ WriteCompletesCall
    \/ BatchSetDone

SpecBatchSet == InitBatchSet /\ [][NextBatchSet]_vars

(***************************************************************************)
(* SpecPage: the browser component PolygotTranslator on a page whose body  *)
(* holds p elements, after initialize() ran with the default language.     *)
(* Here wf is the body, a sequence of elements [nid, id, title, text]      *)
(* (nid: the identity of the element and of its text node; id and title    *)
(* are <<>> when the attribute is absent); hist is the body with the       *)
(* content each element had when it entered the page; cache is             *)
(* this.originalContent, terms is this.translations, opts.currentLang is   *)
(* this.currentLang, ts lists the languages of the fetches in flight and   *)
(* result.applied is the language of the load that last assigned           *)
(* this.translations.                                                      *)
(***************************************************************************)

MaxSwitches == 3
MaxElements == 3
MaxFetches == 3

PageLanguages == {"en", "es", "fr"}

\* <localesPath>/<lang>.json on the server
LocaleTable(lang) ==
    IF lang = "es" THEN <<[k |-> <<"H", "i">>, v |-> <<"H", "o">>]>>
    ELSE IF lang = "fr"
    THEN <<[k |-> <<"H", "i">>, v |-> <<"S", "a">>],
           [k |-> <<"B", "y">>, v |-> <<"A", "u">>]>>
    ELSE <<>>

RECURSIVE leadingSpace(_)
\* originalText.match(/^\s*/)[0]
leadingSpace(s) ==
    IF s # <<>> /\ Head(s) \in Whitespace THEN <<Head(s)>> \o leadingSpace(Tail(s))
    ELSE <<>>

RECURSIVE trailingSpace(_)
\* originalText.match(/\s*$/)[0]
trailingSpace(s) ==
    IF s # <<>> /\ s[Len(s)] \in Whitespace
    THEN trailingSpace(SubSeq(s, 1, Len(s) - 1)) \o <<s[Len(s)]>>
    ELSE <<>>

\* this.translations[key] where it is tested for truthiness: <<the value>>
\* for a non-empty string, else <<>>
truthyTranslation(translations, key) ==
    IF MapHas(translations, key) /\ MapGet(translations, key) # <<>>
    THEN <<MapGet(translations, key)>> ELSE <<>>

\* getUniqueId(element) for the n-th child of body: its id, or the path
\* p:nth-child(n)
getUniqueId(element, n) ==
    IF element.id # <<>> THEN [id |-> element.id[1]] ELSE [nth |-> n]

RECURSIVE storeTextNodes(_, _, _)
\* the TreeWalker loop of storeOriginalContent from the n-th element on
storeTextNodes(originalContent, body, n) ==
    IF n > Len(body) THEN originalContent
    ELSE LET key == [node |-> body[n].nid]
             stored == IF trim(body[n].text) # <<>> /\ ~MapHas(originalContent, key)
                       THEN MapSet(originalContent, key,
                                   [type |-> "text", nid |-> body[n].nid,
                                    original |-> body[n].text])
                       ELSE originalContent
         IN  storeTextNodes(stored, body, n + 1)

RECURSIVE storeAttributes(_, _, _)
\* the elements.forEach of storeOriginalContent, for the title attribute
storeAttributes(originalContent, body, n) ==
    IF n > Len(body) THEN originalContent
    ELSE LET key == [uid |-> getUniqueId(body[n], n), attr |-> "title"]
             value == body[n].title
             stored == IF value # <<>> /\ trim(value[1]) # <<>>
                          /\ ~MapHas(originalContent, key)
                       THEN MapSet(originalContent, key,
                                   [type |-> "attribute", nid |-> body[n].nid,
                                    original |-> value[1]])
                       ELSE originalContent
         IN  storeAttributes(stored, body, n + 1)

storeOriginalContent(originalContent, body) ==
    storeAttributes(storeTextNodes(originalContent, body, 1), body, 1)

\* one callback of translatePage's forEach
translateOne(body, data, translations) ==
    LET found == truthyTranslation(translations,
                                   IF data.type = "text" THEN trim(data.original)
                                   ELSE data.original)
        shown == IF found = <<>> THEN data.original
                 ELSE IF data.type = "text"
                 THEN leadingSpace(data.original) \o found[1] \o trailingSpace(data.original)
                 ELSE found[1]
    IN  [n \in 1..Len(body) |->
            IF body[n].nid # data.nid THEN body[n]
            ELSE IF data.type = "text" THEN [body[n] EXCEPT !.text = shown]
            ELSE [body[n] EXCEPT !.title = <<shown>>]]

RECURSIVE translateFrom(_, _, _, _)
translateFrom(body, originalContent, translations, i) ==
    IF i > Len(originalContent) THEN body
    ELSE translateFrom(translateOne(body, originalContent[i].v, translations),
                       originalContent, translations, i + 1)

\* translatePage(): the body after it
translatePage(body, originalContent, translations) ==
    translateFrom(body, originalContent, translations, 1)

\* the elements a script of the page adds
NewElements ==
    {[id |-> <<>>, title |-> <<>>, text |-> <<"B", "y">>],
     [id |-> <<>>, title |-> <<<<"B", "y">>>>, text |-> <<" ", "H", "i">>]}

\* the pages: <p title="Hi"> Hi </p> with or without an id
InitialBodies ==
    {<<[nid |-> 1, id |-> <<>>, title |-> <<<<"H", "i">>>>,
        text |-> <<" ", "H", "i", " ">>]>>,
     <<[nid |-> 1, id |-> <<"x">>, title |-> <<<<"H", "i">>>>,
        text |-> <<" ", "H", "i", " ">>]>>}

InitPage ==
    /\ opts = [currentLang |-> "en", isInitialized |-> TRUE]
    /\ terms = <<>>
    /\ wf \in InitialBodies
    /\ cache = storeOriginalContent(<<>>, wf)
    /\ hist = wf
    /\ stats = ZeroStats
    /\ disk = <<>>
    /\ pc = "idle"
    /\ req = None
    /\ ts = <<>>
    /\ result = [applied |-> "en"]
    /\ runs = 0

\* loadTranslations(lang) up to its first await: the default language
\* empties the table at once, any other language starts a fetch
StartLoads(lang, count) ==
    IF lang = "en"
    THEN /\ terms' = <<>>
         /\ result' = [applied |-> "en"]
         /\ wf' = translatePage(wf, cache, <<>>)
         /\ UNCHANGED ts
    ELSE /\ ts' = ts \o [n \in 1..count |-> lang]
         /\ UNCHANGED <<terms, result, wf>>

\* changeLanguage(lang): setAttribute("lang", lang) runs
\* attributeChangedCallback, which loads the language as well, so two loads
\* start
ChangeLanguage(lang) ==
    /\ lang # opts.currentLang
    /\ runs < MaxSwitches
    /\ Len(ts) + 2 <= MaxFetches
    /\ runs' = runs + 1
    /\ opts' = [opts EXCEPT !.currentLang = lang]
    /\ req' = [via |-> "changeLanguage", lang |-> lang]
    /\ StartLoads(lang, 2)
    /\ UNCHANGED <<cache, stats, disk, pc, hist>>

\* the page sets the lang attribute: attributeChangedCallback("lang", ...)
AttributeChanged(lang) ==
    /\ lang # opts.currentLang
    /\ runs < MaxSwitches
    /\ Len(ts) + 1 <= MaxFetches
    /\ runs' = runs + 1
    /\ opts' = [opts EXCEPT !.currentLang = lang]
    /\ req' = [via |-> "attribute", lang |-> lang]
    /\ StartLoads(lang, 1)
    /\ UNCHANGED <<cache, stats, disk, pc, hist>>

\* the i-th fetch in flight settles: loadTranslations assigns the table (or
\* {} when the fetch failed) and its caller runs translatePage()
FetchSettles(i, ok) ==
    /\ i \in 1..Len(ts)
    /\ ts' = SubSeq(ts, 1, i - 1) \o SubSeq(ts, i + 1, Len(ts))
    /\ terms' = IF ok THEN LocaleTable(ts[i]) ELSE <<>>
    /\ result' = [applied |-> ts[i]]
    /\ wf' = translatePage(wf, cache, terms')
    /\ UNCHANGED <<opts, cache, stats, disk, pc, req, runs, hist>>

\* a script inserts an element as the n-th child of body; the
\* MutationObserver callback runs storeOriginalContent() and translatePage()
ElementAdded(element, n) ==
    /\ Len(wf) < MaxElements
    /\ n \in 1..(Len(wf) + 1)
    /\ \E added \in {[nid |-> Len(wf) + 1, id |-> element.id,
                      title |-> element.title, text |-> element.text]} :
       \E body \in {SubSeq(wf, 1, n - 1) \o <<added>> \o SubSeq(wf, n, Len(wf))} :
           /\ hist' = SubSeq(hist, 1, n - 1) \o <<added>> \o SubSeq(hist, n, Len(hist))
           /\ cache' = storeOriginalContent(cache, body)
           /\ wf' = translatePage(body, cache', terms)
    /\ UNCHANGED <<opts, terms, stats, disk, pc, req, ts, result, runs>>

ChangeLanguageCall == \E lang \in PageLanguages : ChangeLanguage(lang)
AttributeChangedCall == \E lang \in PageLanguages : AttributeChanged(lang)
FetchSettlesCall == \E i \in 1..MaxFetches, ok \in BOOLEAN : FetchSettles(i, ok)
ElementAddedCall ==
    \E element \in NewElements, n \in 1..MaxElements : ElementAdded(element, n)

NextPage ==
    \/ ChangeLanguageCall
    \/ AttributeChangedCall
    \/ FetchSettlesCall
    \/ ElementAddedCall

SpecPage == InitPage /\ [][NextPage]_vars

(***************************************************************************)
(* SpecExtract: repeated calls of parseAndExtract on one source file, with *)
(* <language>.json as an earlier run or its user left it. Here disk is the *)
(* locale file (<<>> while absent, else <<the JSON object>>), hist the     *)
(* file as it was before the latest call, and result the value returned or *)
(* the error thrown, with whether fs.writeFile ran.                        *)
(***************************************************************************)

MaxExtracts == 3

ProtoKey == <<"_", "_", "p", "r", "o", "t", "o", "_", "_">>

\* obj[key] = value for a string value: on an object literal the key
\* __proto__ names the accessor of Object.prototype, whose setter ignores a
\* value that is neither an object nor null, so no own property is made
ObjectSet(obj, key, value) ==
    IF key = ProtoKey THEN obj ELSE MapSet(obj, key, value)

RECURSIVE outputDataOf(_)
\* newStrings.forEach((str) => { outputData[str] = str; })
outputDataOf(newStrings) ==
    IF newStrings = <<>> THEN <<>>
    ELSE LET rest == outputDataOf(SubSeq(newStrings, 1, Len(newStrings) - 1))
             str == newStrings[Len(newStrings)]
         IN  ObjectSet(rest, str, str)

\* parseFiles with the default visibleAttributes of polygotParser
DefaultVisibleAttributes ==
    <<<<"t", "i", "t", "l", "e">>, <<"a", "l", "t">>,
      <<"p", "l", "a", "c", "e", "h", "o", "l", "d", "e", "r">>>>

parseFiles(code) == polygotParser(code, DefaultVisibleAttributes, <<>>)

\* the strings of extractedStrings that are not keys of the existing file
newStringsOf(file, extractedStrings) ==
    LET isNew(str) == file = <<>> \/ ~MapHas(file[1], str)
    IN  SelectSeq(extractedStrings, isNew)

\* steps 3 and 4: finalData is the existing object with outputData assigned
\* over it, and writeFile merges the file's object with finalData once more
extractedFile(file, newStrings) ==
    LET existing == IF file = <<>> THEN <<>> ELSE file[1]
        finalData(outputData) == MapAssign(existing, outputData)
    IN  <<MapAssign(existing, finalData(outputDataOf(newStrings)))>>

ExtractCodes ==
   {
    \* <p>Hi</p>
    <<"<", "p", ">", "H", "i", "<", "/", "p", ">">>,
    \* <p>Hi</p><p>By</p>
    <<"<", "p", ">", "H", "i", "<", "/", "p", ">", "<", "p", ">", "B", "y",
        "<", "/", "p", ">">>,
    \* <i alt="Yo"/><p> </p>
    <<"<", "i", " ", "a", "l", "t", "=", "\"", "Y", "o", "\"", "/", ">", "<",
        "p", ">", " ", "<", "/", "p", ">">>,
    \* <p>__proto__</p>
    <<"<", "p", ">", "_", "_", "p", "r", "o", "t", "o", "_", "_", "<", "/",
        "p", ">">>
   }

\* en.json before the first call: absent, empty, a file whose value for Hi
\* was edited, a file of an earlier extraction
ExistingLocaleFiles ==
    {<<>>,
     <<<<>>>>,
     <<<<[k |-> <<"H", "i">>, v |-> <<"H", "e", "y">>]>>>>,
     <<<<[k |-> <<"B", "y">>, v |-> <<"B", "y">>]>>>>}

InitExtract ==
    /\ opts = [memory |-> FALSE, glossary |-> FALSE]
    /\ terms = <<>>
    /\ cache = EmptyCache
    /\ stats = ZeroStats
    /\ disk \in ExistingLocaleFiles
    /\ pc = "idle"
    /\ req = None
    /\ wf = None
    /\ ts = None
    /\ result = None
    /\ runs = 0
    /\ hist = disk

\* await parseAndExtract(sourcePath, "en", outputDir): outcome is "ok",
\* "unreadable" (fs.stat or readFile of the source rejects) or "unwritable"
\* (writeFile rejects)
ParseAndExtract(code, outcome) ==
    /\ runs < MaxExtracts
    /\ runs' = runs + 1
    /\ req' = [via |-> "extract", code |-> code]
    /\ hist' = disk
    /\ IF outcome = "unreadable"
       THEN /\ result' = [threw |-> TRUE, written |-> FALSE,
                          message |-> "Failed to parse source path"]
            /\ UNCHANGED disk
       ELSE \E extractedStrings \in {parseFiles(code)} :
            \E newStrings \in {newStringsOf(disk, extractedStrings)} :
               IF newStrings = <<>>
               THEN /\ result' = [threw |-> FALSE, written |-> FALSE,
                                  stringsExtracted |-> 0,
                                  stringsSkipped |-> Len(extractedStrings)]
                    /\ UNCHANGED disk
               ELSE IF outcome = "unwritable"
               THEN /\ result' = [threw |-> TRUE, written |-> FALSE,
                                  message |-> "Failed to write output file"]
                    /\ UNCHANGED disk
               ELSE /\ disk' = extractedFile(disk, newStrings)
                    /\ result' = [threw |-> FALSE, written |-> TRUE,
                                  stringsExtracted |-> Len(newStrings),
                                  stringsSkipped |->
                                      Len(extractedStrings) - Len(newStrings)]
    /\ UNCHANGED <<opts, terms, cache, stats, pc, wf, ts>>

ExtractCall ==
    \E code \in ExtractCodes, outcome \in {"ok", "unreadable", "unwritable"} :
        ParseAndExtract(code, outcome)

NextExtract == ExtractCall

SpecExtract == InitExtract /\ [][NextExtract]_vars

(***************************************************************************)
(* Properties of the workflow (Spec)                                       *)
(***************************************************************************)

WorkflowDone == pc = "done" /\ req.via = "workflow"

NonBlank(strings) == \A i \in 1..Len(strings) : trim(strings[i]) # <<>>

\* the trimmed texts of a list have pairwise different digests
NoKeyClash(strings) ==
    \A i, j \in 1..Len(strings) :
        Hash(trim(strings[i])) = Hash(trim(strings[j])) => trim(strings[i]) = trim(strings[j])

\* the remote calls made by the run in progress
CallsMade == IF ts = None THEN 0 ELSE Len(ts.log)

\* C1 (Totality): for a non-empty list of non-blank strings and a supported
\* target language, the mapping returned by translateWithMemoryAndGlossary
\* has every input string as a key, whatever the memory and the glossary
\* hold and whether each chunk's call succeeds or fails.
C1_Totality ==
    (/\ WorkflowDone
     /\ req.strings # <<>>
     /\ NonBlank(req.strings)
     /\ req.targetLang \in SUPPORTED_LANGUAGES)
    => \A i \in 1..Len(req.strings) : MapHas(result.translations, req.strings[i])

\* C2 (No double-spend): in the value returned, fromMemory + fromGlossary +
\* fromAPI is the number of unique non-blank input strings.
C2_NoDoubleSpend ==
    WorkflowDone
    => result.stats.fromMemory + result.stats.fromGlossary + result.stats.fromAPI
       = Cardinality({s \in SeqToSet(req.strings) : trim(s) # <<>>})

\* every input string was resolved by the memory lookup or by the glossary's
\* whole-string skip
AllResolvedLocally ==
    \A i \in 1..Len(req.strings) :
        \/ MapHas(wf.found, req.strings[i])
        \/ /\ wf.glossaryData # <<>>
           /\ MapHas(wf.glossaryData[1].skipTranslation, req.strings[i])

\* C4 (Cost-avoidance path): when every input string is resolved by a memory
\* hit or by a whole-string glossary skip, the run makes no remote call,
\* reports zero tokens and still returns a mapping with every input string.
C4_CostAvoidance ==
    (/\ pc \in {"calling", "pause", "done", "failed"}
     /\ req.via = "workflow"
     /\ AllResolvedLocally)
    => /\ pc = "done"
       /\ CallsMade = 0
       /\ result.tokensUsed = ZeroTokens
       /\ \A i \in 1..Len(req.strings) : MapHas(result.translations, req.strings[i])

\* a run that took the cost-avoidance path for a list with a memory hit and
\* a whole-string glossary skip
C4_Witness ==
    /\ WorkflowDone
    /\ AllResolvedLocally
    /\ Len(wf.found) > 0
    /\ wf.glossarySkips > 0
    /\ CallsMade = 0

\* the strings of the run that went to the translation capability
SentToApi ==
    {s \in SeqToSet(req.strings) :
        /\ trim(s) # <<>>
        /\ ~MapHas(wf.found, s)
        /\ ~(wf.glossaryData # <<>> /\ MapHas(wf.glossaryData[1].skipTranslation, s))}

\* C5 (Memory write-back): after a run with a memory store in which every
\* chunk succeeded, a second run over the same strings and language pair
\* finds in memory every string the first run resolved via the API. (Stated
\* for lists whose texts have pairwise different digests.)
C5_WriteBack ==
    (/\ WorkflowDone
     /\ opts.memory
     /\ NoKeyClash(req.strings)
     /\ ts # None
     /\ \A j \in 1..Len(ts.log) : ts.log[j].kind = "ok")
    => LET second == batchGet(store, req.strings, req.sourceLang, req.targetLang)
       IN  \A s \in SentToApi : MapHas(second.found, s)

\* C6 (Fail-fast validation): a request with an unsupported target language,
\* an empty list or no API key fails with the corresponding error whatever
\* the memory and the glossary hold, and before any remote call. (Stated for
\* the missing key alone: a supported language, a non-empty list.)
C6_FailFast ==
    (/\ pc \in {"calling", "pause", "done", "failed"}
     /\ req.via = "workflow"
     /\ req.strings # <<>>
     /\ req.targetLang \in SUPPORTED_LANGUAGES
     /\ validate(req.strings, req.targetLang, req.apiKey) # "none")
    => /\ pc = "failed"
       /\ result = [error |-> validate(req.strings, req.targetLang, req.apiKey)]
       /\ CallsMade = 0

RemoteCallsStarted == pc \in {"calling", "pause"} /\ req.via = "workflow"

\* a run that has reached its remote calls returns
WorkflowTerminates == RemoteCallsStarted ~> WorkflowDone

\* C16 (Resolution always completes): if every remote call eventually
\* returns or throws, a run eventually returns, and at return every input
\* string is resolved, that is present in the result.
C16_ResolutionCompletes ==
    (RemoteCallsStarted /\ NonBlank(req.strings))
        ~> (/\ WorkflowDone
            /\ \A i \in 1..Len(req.strings) :
                   MapHas(result.translations, req.strings[i]))

\* the strings of the chunks whose remote call failed, each with its place in
\* the list handed to translateStrings
FailedSends ==
    {m \in 1..Len(wf.stringsToTranslate) :
        \E j \in 1..Len(ts.chunks) :
            /\ ts.log[j].kind # "ok"
            /\ wf.stringsToTranslate[m] \in SeqToSet(ts.chunks[j])}

\* the input string behind the m-th string handed to translateStrings
OriginalOf(m) ==
    IF wf.glossaryData = <<>> THEN wf.stringsToTranslate[m]
    ELSE wf.glossaryData[1].originalStrings[m]

\* C17 (Fallback value): when the chunk containing a string fails, the final
\* mapping gives that string its own original value, also when a glossary
\* term in it was replaced by a placeholder before sending and the glossary
\* has a translation of the term. The value is read under the key the run
\* gave the string (the string itself, else the string as it was sent).
C17_FallbackValue ==
    (WorkflowDone /\ ts # None) =>
        \A m \in FailedSends :
            LET key == IF MapHas(result.translations, OriginalOf(m))
                       THEN OriginalOf(m)
                       ELSE wf.stringsToTranslate[m]
            IN  /\ MapHas(result.translations, key)
                /\ MapGet(result.translations, key) = OriginalOf(m)

\* C18 (Memory entries come from successful translations only): after a run
\* in which a chunk's remote call failed, the memory store has no entry for
\* the strings of that chunk, so a later run sends them again.
C18_NoEntryForFailedChunk ==
    (WorkflowDone /\ opts.memory /\ ts # None) =>
        \A m \in FailedSends :
            batchGet(store, <<wf.stringsToTranslate[m]>>,
                     req.sourceLang, req.targetLang).found = <<>>

\* the tiers of the run in progress: the input strings resolved by the memory
\* lookup, those resolved by the glossary's whole-string skip, those handed
\* to the glossary at all, the input strings behind the list handed to
\* translateStrings, and the strings of the chunks sent
MemoryResolved == MapKeys(wf.found)

GlossaryResolved ==
    IF wf.glossaryData = <<>> THEN {} ELSE MapKeys(wf.glossaryData[1].skipTranslation)

PassedToGlossary ==
    IF wf.glossaryData = <<>> THEN {}
    ELSE GlossaryResolved \cup SeqToSet(wf.glossaryData[1].originalStrings)

ApiResolved == {OriginalOf(m) : m \in 1..Len(wf.stringsToTranslate)}

SentInChunks ==
    IF ts = None THEN {}
    ELSE UNION {SeqToSet(ts.chunks[j]) : j \in 1..Len(ts.chunks)}

GlossaryValues ==
    {terms[i].v.term : i \in {j \in 1..Len(terms) : terms[j].v.doNotTranslate}}
    \cup {TranslationFor(terms[i].v, req.targetLang) : i \in 1..Len(terms)}

ValidationErrors == {"UnsupportedLanguage", "MissingCredential"}

\* a request that ends with a validation error
FailsValidation ==
    /\ pc = "idle"
    /\ pc' = "failed"
    /\ result'.error \in ValidationErrors

\* C36: when a translate request fails validation (unsupported target
\* language or missing API key), the memory store is as before the request:
\* the same entries with the same useCount, the same hit and miss counters
C36_UnchangedOnValidationError ==
    [][FailsValidation => (cache' = cache /\ stats' = stats)]_vars

(***************************************************************************)
(* Properties of the chunk loop (SpecTranslate)                            *)
(***************************************************************************)

\* the sum of a usage field over the chunks that succeeded
RECURSIVE SumOk(_, _)
SumOk(log, field) ==
    IF log = <<>> THEN 0
    ELSE (IF Head(log).kind = "ok" THEN Head(log).usage[field] ELSE 0)
         + SumOk(Tail(log), field)

Issued == IF pc \in {"calling", "pause", "done"} /\ ts # None THEN
              IF ts.chunks = <<>> THEN 0 ELSE ts.i
          ELSE 0
Settled == IF ts # None THEN Len(ts.log) ELSE 0

DispatchInv ==
    /\ Issued - Settled \in {0, 1}
    /\ pc = "calling" => (ts.i \in 1..Len(ts.chunks) /\ Settled = ts.i - 1)
    /\ pc = "pause" => (ts.i < Len(ts.chunks) /\ Settled = ts.i)
    /\ (pc = "done" /\ ts # None) => Settled = Len(ts.chunks)

DispatchStep ==
    /\ (pc' = "calling" /\ pc # "calling")
       => IF ts'.i = 1 THEN pc = "idle"
          ELSE pc = "pause" /\ ts'.i = ts.i + 1 /\ ts'.log = ts.log
    /\ (pc = "calling" /\ pc' # "calling")
       => /\ Len(ts'.log) = Len(ts.log) + 1
          /\ pc' = IF ts.i < Len(ts.chunks) THEN "pause" ELSE "done"

\* C19 (Sequential dispatch): within one translateStrings run at most one
\* remote call is outstanding; chunks are sent in input order, the call for
\* chunk i+1 is issued only after the call for chunk i has returned or thrown
\* and the pause has elapsed, and no pause follows the last chunk.
C19_SequentialDispatch == []DispatchInv /\ [][DispatchStep]_vars

\* the call for the third chunk is outstanding, two calls have settled
C19_Witness ==
    /\ pc = "calling"
    /\ req.via = "direct"
    /\ ts.i = 3
    /\ Len(ts.log) = 2

RECURSIVE Concat(_)
\* the concatenation of a list of lists
Concat(lists) == IF lists = <<>> THEN <<>> ELSE Head(lists) \o Concat(Tail(lists))

\* list holds no element twice
NoDuplicates(list) == \A i, j \in 1..Len(list) : list[i] = list[j] => i = j

\* the place of the first occurrence of x in list
FirstIndex(list, x) == SetMin({i \in 1..Len(list) : list[i] = x})

\* unique is the list of the non-blank strings of strings, each once, in the
\* order of their first occurrences
IsDeduplicated(unique, strings) ==
    /\ NoDuplicates(unique)
    /\ SeqToSet(unique) = {x \in SeqToSet(strings) : trim(x) # <<>>}
    /\ \A i, j \in 1..Len(unique) :
           i < j => FirstIndex(strings, unique[i]) < FirstIndex(strings, unique[j])

\* ceil(n / m) for m >= 1
CeilDiv(n, m) == (n + m - 1) \div m

\* C25 (Chunking): translateStrings first removes duplicates and blank
\* strings; for maxChunkSize >= 1 the chunks are contiguous slices whose
\* concatenation in order is exactly the work set (the de-duplicated strings,
\* after the glossary step when a glossary is passed), every chunk holds
\* between 1 and maxChunkSize strings, and the number of remote calls is
\* ceil(n / maxChunkSize).
C25_Chunking ==
    (pc \in {"calling", "pause", "done"} /\ req.via = "direct" /\ req.maxChunkSize >= 1) =>
        /\ IsDeduplicated(ts.uniqueStrings, req.strings)
        /\ ts.glossaryData = <<>> => ts.stringsToTranslate = ts.uniqueStrings
        /\ Concat(ts.chunks) = ts.stringsToTranslate
        /\ \A j \in 1..Len(ts.chunks) :
               Len(ts.chunks[j]) >= 1 /\ Len(ts.chunks[j]) <= req.maxChunkSize
        /\ Len(ts.chunks) = CeilDiv(Len(ts.stringsToTranslate), req.maxChunkSize)
        /\ Len(ts.log) <= Len(ts.chunks)
        /\ pc = "done" => Len(ts.log) = CeilDiv(Len(ts.stringsToTranslate), req.maxChunkSize)

\* a call whose three strings went out as a chunk of two and a chunk of one
C25_Witness ==
    /\ pc = "done"
    /\ req.via = "direct"
    /\ req.maxChunkSize = 2
    /\ Len(ts.chunks) = 2
    /\ Len(ts.chunks[2]) = 1
    /\ Len(ts.log) = 2

(***************************************************************************)
(* Properties of the memory store (SpecMemory)                             *)
(***************************************************************************)

IsGet(r) == r # None /\ r.op = "get"
IsSet(r) == r # None /\ r.op = "set"

\* this step is a get of exactly the triple that the previous step has set
SetThenGet ==
    /\ IsSet(result)
    /\ IsGet(result')
    /\ result'.text = result.text
    /\ result'.sourceLang = result.sourceLang
    /\ result'.targetLang = result.targetLang

\* C7 (Memory round-trip) as claimed: set(s, t, src, tgt) followed by
\* get(s, src, tgt) returns t.
C7_RoundTrip == [][SetThenGet => result'.value = <<result.translation>>]_vars

\* hist holds a set() of this trimmed text under this language pair
EverStored(text, sourceLang, targetLang) ==
    \E h \in hist : /\ h.text = trim(text)
                    /\ h.sourceLang = sourceLang
                    /\ h.targetLang = targetLang

\* C7 amended: set(s, t, src, tgt) followed by get(s, src, tgt) returns t
\* without its leading and trailing whitespace; get returns null for a triple
\* whose trimmed text was never stored under that language pair.
C7_RoundTripTrimmed ==
    /\ [][SetThenGet => result'.value = <<trim(result.translation)>>]_vars
    /\ [](IsGet(result) /\ ~EverStored(result.text, result.sourceLang, result.targetLang)
          => result.value = <<>>)

\* a get right after the set of a padded translation for the same triple,
\* after the same text has been stored under another language pair only
C7_Witness ==
    /\ IsGet(result)
    /\ result.value = << <<"Y">> >>
    /\ hist = {SetRecord(result.text, <<" ", "Y", " ">>, result.sourceLang, result.targetLang)}
    /\ stats.misses = 1

\* the entry under the key of (text, pair) belongs to another source text
KeyClash(text, sourceLang, targetLang) ==
    LET key == MemoryGenerateKey(text, sourceLang, targetLang)
    IN  key \in DOMAIN cache /\ cache[key].sourceText # trim(text)

\* C8 (Collision safety of lookup): get(x) never returns a translation stored
\* for a text whose trimmed form differs from trim(x); a key match with
\* another source text is counted and returned as a miss and changes no
\* entry; lookups of texts that differ in surrounding whitespace agree.
C8_CollisionSafety ==
    /\ [](IsGet(result) /\ result.value # <<>>
          => \E h \in hist : /\ h.text = trim(result.text)
                             /\ h.sourceLang = result.sourceLang
                             /\ h.targetLang = result.targetLang
                             /\ h.translation = result.value[1])
    /\ [][(IsGet(result') /\ runs' = runs + 1
           /\ KeyClash(result'.text, result'.sourceLang, result'.targetLang))
          => /\ result'.value = <<>>
             /\ stats' = [stats EXCEPT !.misses = @ + 1]
             /\ cache' = cache]_vars
    /\ [](\A x, y \in MemoryTexts : \A pair \in MemoryLangPairs :
             trim(x) = trim(y)
             => MemoryGet(store, x, pair[1], pair[2]) = MemoryGet(store, y, pair[1], pair[2]))

\* a lookup whose key is held by an entry of another source text came back
\* null and was counted as a miss
C8_Witness ==
    /\ IsGet(result)
    /\ result.value = <<>>
    /\ KeyClash(result.text, result.sourceLang, result.targetLang)
    /\ stats.misses = 1

IsBatchGet(r) == r # None /\ r.op = "batchGet"

\* this step is a get that found its entry
GetHit == IsGet(result') /\ runs' = runs + 1 /\ result'.value # <<>>

\* this step is a get that returned null
GetMiss == IsGet(result') /\ runs' = runs + 1 /\ result'.value = <<>>

\* this step is a batchGet of a list without duplicates
BatchGetStep == IsBatchGet(result') /\ runs' = runs + 1 /\ NoDuplicates(result'.texts)

\* C26 (Lookup accounting): every get increments exactly one of stats.hits
\* and stats.misses by one; a hit increments the hit entry's useCount by one
\* and a miss changes no entry; for a duplicate-free input, batchGet raises
\* hits by exactly the size of found and misses by exactly the length of
\* missing, and found and missing partition the input.
C26_LookupAccounting ==
    /\ [][GetHit =>
            /\ stats' = [stats EXCEPT !.hits = @ + 1]
            /\ cache' = [cache EXCEPT ![MemoryGenerateKey(result'.text, result'.sourceLang,
                                                          result'.targetLang)].useCount = @ + 1]]_vars
    /\ [][GetMiss =>
            /\ stats' = [stats EXCEPT !.misses = @ + 1]
            /\ cache' = cache]_vars
    /\ [][BatchGetStep =>
            /\ stats'.hits = stats.hits + Len(result'.found)
            /\ stats'.misses = stats.misses + Len(result'.missing)
            /\ stats'.additions = stats.additions
            /\ MapKeys(result'.found) \cap SeqToSet(result'.missing) = {}
            /\ MapKeys(result'.found) \cup SeqToSet(result'.missing)
               = SeqToSet(result'.texts)]_vars

(***************************************************************************)
(* Properties of the glossary (SpecGlossary)                               *)
(***************************************************************************)

Prepared == pc \in {"prepared", "done"} /\ req # None /\ req.via = "glossary"

\* the entries whose whole term is the text x: the case-sensitive entry with
\* exactly that term, otherwise the case-insensitive entry equal to it up to
\* letter case
WholeTermEntry(gterms, x) ==
    LET exact == {i \in 1..Len(gterms) :
                     gterms[i].v.caseSensitive /\ gterms[i].v.term = x}
        folded == {i \in 1..Len(gterms) :
                      /\ ~gterms[i].v.caseSensitive
                      /\ toLowerCase(gterms[i].v.term) = toLowerCase(x)}
    IN  IF exact # {} THEN <<gterms[SetMin(exact)].v>>
        ELSE IF folded # {} THEN <<gterms[SetMin(folded)].v>>
        ELSE <<>>

\* C9 (Glossary whole-string skip): after prepareForTranslation every input
\* string is either a key of skipTranslation or has one counterpart in
\* stringsForAPI, never both; a string is skipped exactly when its trimmed
\* form is a whole glossary term that is doNotTranslate (mapped to the term)
\* or has a translation for the target language (mapped to it).
C9_WholeStringSkip ==
    Prepared =>
        /\ wf.originalStrings =
               SelectSeq(req.strings, LAMBDA x : ~MapHas(wf.skipTranslation, x))
        /\ Len(wf.stringsForAPI) = Len(wf.originalStrings)
        /\ \A i \in 1..Len(req.strings) :
               LET x == req.strings[i]
                   e == WholeTermEntry(terms, trim(x))
               IN  IF e = <<>> THEN ~MapHas(wf.skipTranslation, x)
                   ELSE IF e[1].doNotTranslate
                   THEN /\ MapHas(wf.skipTranslation, x)
                        /\ MapGet(wf.skipTranslation, x) = e[1].term
                   ELSE IF TranslationFor(e[1], req.targetLang) # <<>>
                   THEN /\ MapHas(wf.skipTranslation, x)
                        /\ MapGet(wf.skipTranslation, x) = TranslationFor(e[1], req.targetLang)
                   ELSE ~MapHas(wf.skipTranslation, x)

\* every glossary entry that matches inside the text is doNotTranslate
OnlyDoNotTranslate(gterms, text) ==
    LET found == findInText(gterms, text)
    IN  \A j \in 1..Len(found) : found[j].entry.doNotTranslate

\* C10 (Placeholder round trip): when the translation returns every string
\* of stringsForAPI unchanged, postprocessing a string whose matching entries
\* are all doNotTranslate gives back the original string, and no
\* __GLOSSARY_n__ token is left in it.
C10_PlaceholderRoundTrip ==
    (pc = "done" /\ req # None /\ req.via = "glossary") =>
        \A i \in 1..Len(wf.originalStrings) :
            OnlyDoNotTranslate(terms, wf.originalStrings[i]) =>
                /\ MapHas(result, wf.stringsForAPI[i])
                /\ MapGet(result, wf.stringsForAPI[i]) = wf.originalStrings[i]
                /\ \A n \in 0..Len(wf.glossaryMap) :
                       ~includes(MapGet(result, wf.stringsForAPI[i]), Placeholder(n))

\* C11 (Placeholder uniqueness): within one prepareForTranslation call the
\* tokens of glossaryMap are pairwise distinct, no token occurs in two
\* strings of stringsForAPI, and no token is a substring of an input string
\* as it was before substitution.
C11_PlaceholderUniqueness ==
    Prepared =>
        /\ \A i, j \in 1..Len(wf.glossaryMap) :
               wf.glossaryMap[i].k = wf.glossaryMap[j].k => i = j
        /\ \A i \in 1..Len(wf.glossaryMap) :
               /\ \A m, n \in 1..Len(wf.stringsForAPI) :
                      (/\ includes(wf.stringsForAPI[m], wf.glossaryMap[i].k)
                       /\ includes(wf.stringsForAPI[n], wf.glossaryMap[i].k)) => m = n
               /\ \A n \in 1..Len(req.strings) :
                      ~includes(req.strings[n], wf.glossaryMap[i].k)

\* the matches of findInText that preprocessStrings replaces
HandledMatches(gterms, text, targetLang) ==
    SelectSeq(findInText(gterms, text),
              LAMBDA f : f.entry.doNotTranslate \/ TranslationFor(f.entry, targetLang) # <<>>)

RECURSIVE HandledBefore(_, _, _, _)
\* the number of matches replaced in the first n strings
HandledBefore(gterms, strings, targetLang, n) ==
    IF n = 0 THEN 0
    ELSE HandledBefore(gterms, strings, targetLang, n - 1)
         + Len(HandledMatches(gterms, strings[n], targetLang))

\* the number of offsets at which pat occurs in s
Occurrences(s, pat) == Cardinality({p \in 0..Len(s) : StartsAt(s, pat, p)})

\* the characters of text that lie in no replaced occurrence, in order
OutsideMatches(gterms, text, targetLang) ==
    LET handled == HandledMatches(gterms, text, targetLang)
        covered == {p \in 1..Len(text) :
                       \E j \in 1..Len(handled) :
                           /\ p > handled[j].position
                           /\ p <= handled[j].position + Len(handled[j].matchedText)}
    IN  SelectSeq([p \in 1..Len(text) |-> IF p \in covered THEN "" ELSE text[p]],
                  LAMBDA c : c # "")

RECURSIVE WithoutTokens(_, _)
\* s with every occurrence of the tokens numbered below n taken out
WithoutTokens(s, n) ==
    IF n = 0 THEN s
    ELSE WithoutTokens(replaceAll(s, Placeholder(n - 1), <<>>), n - 1)

\* C22 (Splice validity): after preprocessStrings handles k term occurrences
\* in a string, the processed string contains each of the k generated
\* placeholders exactly once and intact, and the text outside the replaced
\* occurrences is unchanged and in its original order, also when two entries
\* match overlapping spans or the same span. (Stated for input strings that
\* hold no underscore of their own.)
C22_SpliceValidity ==
    Prepared =>
        \A i \in 1..Len(wf.originalStrings) :
            LET text == wf.originalStrings[i]
                first == HandledBefore(terms, wf.originalStrings, req.targetLang, i - 1)
                k == Len(HandledMatches(terms, text, req.targetLang))
            IN  "_" \notin SeqToSet(text) =>
                    /\ \A n \in first..(first + k - 1) :
                           Occurrences(wf.stringsForAPI[i], Placeholder(n)) = 1
                    /\ WithoutTokens(wf.stringsForAPI[i], Len(wf.glossaryMap))
                       = OutsideMatches(terms, text, req.targetLang)

Restored == pc = "restored" /\ req # None /\ req.via = "glossary"

\* the object handed to postprocessTranslations in the run in progress
RepliedKeys ==
    MapKeys(MapAssign(<<>>, [j \in 1..Len(wf.stringsForAPI) |->
                                [k |-> wf.stringsForAPI[j], v |-> <<>>]]))

\* C23 (Placeholder restoration): postprocessTranslations keeps the key set
\* of its input unchanged and replaces every occurrence of every placeholder
\* of glossaryMap by that placeholder's stored final translation, so that no
\* placeholder of glossaryMap remains in any output value, whatever text the
\* translation capability returned around or between the tokens.
C23_NoPlaceholderLeft ==
    Restored =>
        /\ MapKeys(result) = RepliedKeys
        /\ \A i \in 1..Len(result) :
               \A j \in 1..Len(wf.glossaryMap) :
                   ~includes(result[i].v, wf.glossaryMap[j].k)

\* the entries that apply to a whole string: a case-sensitive entry whose
\* term is the trimmed string, a case-insensitive entry whose term is the
\* trimmed string up to letter case
WholeStringEntries(str) ==
    {terms[i].v : i \in {j \in 1..Len(terms) :
        IF terms[j].v.caseSensitive
        THEN terms[j].v.term = trim(str)
        ELSE toLowerCase(terms[j].v.term) = toLowerCase(trim(str))}}

SkipValue(entry, targetLang) ==
    IF entry.doNotTranslate THEN entry.term ELSE TranslationFor(entry, targetLang)

\* C37: a string resolved by whole-string skip is resolved by an entry that
\* applies to it: a case-sensitive entry only when the trimmed string
\* equals its term exactly, and a string that differs from the term in
\* letter case only through a case-insensitive entry
C37_SkipRespectsCase ==
    pc = "prepared" =>
        \A i \in 1..Len(wf.skipTranslation) :
            \E entry \in WholeStringEntries(wf.skipTranslation[i].k) :
                wf.skipTranslation[i].v = SkipValue(entry, req.targetLang)

(***************************************************************************)
(* Properties of the exclusion matcher (SpecExclude)                       *)
(***************************************************************************)

ExcludeDone == pc = "done" /\ req # None /\ req.via = "exclude"

\* the tags of the code in the order tagRegex finds them
RECURSIVE tagsFrom(_, _)
tagsFrom(code, lastIndex) ==
    LET rest(m) == IF m = <<>> THEN <<>>
                   ELSE <<m[1]>> \o tagsFrom(code, m[1].lastIndex)
    IN  rest(execTag(code, lastIndex))

IsClosingTag(m) == StartsAt(m.fullTag, <<"<", "/">>, 0)

IsOpeningTag(m) == ~IsClosingTag(m) /\ ~isSelfClosing(m.fullTag)

\* closing tags minus opening tags of the given name among tags[a+1..b]
Balance(tags, name, a, b) ==
    Cardinality({k \in (a + 1)..b :
                    IsClosingTag(tags[k]) /\ toLowerCase(tags[k].name) = name})
    - Cardinality({k \in (a + 1)..b :
                      IsOpeningTag(tags[k]) /\ toLowerCase(tags[k].name) = name})

\* the element opened by tags[a] is closed by a tag that starts before p:
\* a closing tag of its name that is not used up by an element of that name
\* opened after it
ClosedBefore(tags, a, p) ==
    \E b \in (a + 1)..Len(tags) :
        /\ tags[b].index < p
        /\ IsClosingTag(tags[b])
        /\ Balance(tags, toLowerCase(tags[a].name), a, b) = 1

\* the element opened by tags[a] is open at offset p
OpenAt(tags, a, p) ==
    /\ tags[a].index < p
    /\ IsOpeningTag(tags[a])
    /\ ~ClosedBefore(tags, a, p)

ExcludedByScope(code, p, rules) ==
    LET open(tags) ==
            \E a \in 1..Len(tags) :
                OpenAt(tags, a, p) /\ matchesExcludeRule(tagInfoOf(tags[a]), rules)
    IN  open(tagsFrom(code, 0))

RuleSatisfied(rule, tagInfo) ==
    /\ rule.tag # <<>> => rule.tag[1] = tagInfo.tag
    /\ rule.id # <<>> => rule.id = tagInfo.id
    /\ \A c \in 1..Len(rule.classes) :
           \E d \in 1..Len(tagInfo.classes) : tagInfo.classes[d] = rule.classes[c]

TagOnly(rule) == rule.tag # <<>> /\ rule.id = <<>> /\ rule.classes = <<>>

\* the elements of the code, open or not at the position asked about
ElementsOf(code) ==
    LET infos(tags) == {tagInfoOf(tags[a]) : a \in {k \in 1..Len(tags) : IsOpeningTag(tags[k])}}
    IN  infos(tagsFrom(code, 0))

ClosingTagsOf(code) ==
    LET closing(tags) == {tags[k] : k \in {a \in 1..Len(tags) : IsClosingTag(tags[a])}}
    IN  closing(tagsFrom(code, 0))

\* the stack as the scan has it just before it reaches the tag m
StackBefore(code, m) == openStack(code, m.index, 0, <<>>)

\* the stack as the scan has it once it has handled the tag m
StackAfter(code, m) == openStack(code, m.index + 1, 0, <<>>)

\* the places of the entries of the stack that carry the name of tag m
SameNamed(stack, m) == {i \in 1..Len(stack) : stack[i].tag = toLowerCase(m.name)}

\* after is before without its entry at place i
RemovedAt(before, after, i) ==
    after = SubSeq(before, 1, i - 1) \o SubSeq(before, i + 1, Len(before))

\* C29 (Closing-tag handling in the ancestor stack): a closing tag removes
\* exactly the entry nearest the top of the stack that has the same tag name,
\* even when it is not the top entry, and leaves every other entry present
\* and in the same order; a closing tag with no same-named open entry leaves
\* the stack unchanged.
C29_ClosingTag ==
    (ExcludeDone /\ req.position = Len(req.code)) =>
        \A m \in ClosingTagsOf(req.code) :
            LET before == StackBefore(req.code, m)
                after == StackAfter(req.code, m)
                same == SameNamed(before, m)
            IN  IF same = {} THEN after = before
                ELSE \E i \in same :
                         /\ \A j \in same : j <= i
                         /\ RemovedAt(before, after, i)

\* a closing tag met while an element of another name, opened later, was
\* still on top of the stack
C29_Witness ==
    /\ ExcludeDone
    /\ req.position = Len(req.code)
    /\ \E m \in ClosingTagsOf(req.code) :
           /\ SameNamed(StackBefore(req.code, m), m) # {}
           /\ Len(StackBefore(req.code, m)) \notin SameNamed(StackBefore(req.code, m), m)
           /\ Len(StackAfter(req.code, m)) = 1

\* a rule without tag, id and class, as parseExcludeRules makes it from an
\* empty selector or a bare "."
EmptyRule(rule) == rule.tag = <<>> /\ rule.id = <<>> /\ rule.classes = <<>>

\* C38: a rule with no tag, no id and no class matches no element, so a
\* call whose rules are all of that kind excludes nothing
C38_EmptyRuleMatchesNothing ==
    ExcludeDone =>
        /\ \A r \in 1..Len(wf.excludeRules) :
               EmptyRule(wf.excludeRules[r])
                   => \A a \in 1..Len(wf.stack) :
                          ~matchesExcludeRule(wf.stack[a], <<wf.excludeRules[r]>>)
        /\ (\A r \in 1..Len(wf.excludeRules) : EmptyRule(wf.excludeRules[r]))
               => ~result

(***************************************************************************)
(* Properties of the output files (SpecWrite)                              *)
(***************************************************************************)

WriteDone == pc = "done" /\ req # None /\ req.via = "write"

\* C14 (Write failure surfaced): a failure to write a language's locale file
\* is propagated to the caller of parseAndTranslate; the workflow does not
\* return success while a requested language's file was not written.
C14_WriteFailureSurfaced ==
    (WriteDone /\ result.success) =>
        \A n \in 1..Len(req.languages) :
            /\ req.languages[n] \in SeqToSet(result.files)
            /\ MapHas(wf.outputs, req.languages[n])
            /\ MapGet(wf.outputs, req.languages[n])
               = MapAssign(MapGet(wf.outputs, req.languages[n]),
                           MapGet(wf.translationResults, req.languages[n]))

(***************************************************************************)
(* Properties of the storage file (SpecSave)                               *)
(***************************************************************************)

\* C15 (Crash safety of storage): after a crash at any point, also during
\* save(), memory.json holds the complete snapshot written by the last save
\* that finished, never a partial document.
C15_CrashSafety ==
    pc = "crashed" => (Parses(disk) /\ disk.data = ts.lastSaved)

(***************************************************************************)
(* Properties of the parser (SpecParser)                                   *)
(***************************************************************************)

Parsed == req # None /\ req.via = "parser"

Brackets == {"{", "}", "(", ")", "[", "]", ";", ","}
OnlyOf(str, class) == \A n \in 1..Len(str) : str[n] \in class

\* the strings the three extraction passes put into the Set for the latest
\* call, before decoding
RawStrings == extractStrings(req.code, req.visibleAttributes, req.excludeTags)

\* C32: no string returned by polygotParser is empty, whitespace-only or
\* made only of { } ( ) [ ] ; , and the returned list has no duplicates,
\* also when two different raw strings are equal after entity decoding
C32_CleanOutput ==
    Parsed =>
        /\ \A n \in 1..Len(result) :
               /\ result[n] # <<>>
               /\ ~OnlyOf(result[n], Whitespace)
               /\ ~OnlyOf(result[n], Brackets)
        /\ NoDuplicates(result)

\* a call whose raw strings hold two different strings with the same
\* decoding, both kept, and a string that decodes to whitespace
C32_Witness ==
    /\ Parsed
    /\ \E i, j \in 1..Len(RawStrings) :
           /\ RawStrings[i] # RawStrings[j]
           /\ decodeEntities(RawStrings[i]) = decodeEntities(RawStrings[j])
           /\ \E n \in 1..Len(result) : result[n] = decodeEntities(RawStrings[i])
    /\ \E i \in 1..Len(RawStrings) :
           /\ ~OnlyOf(RawStrings[i], Whitespace)
           /\ OnlyOf(decodeEntities(RawStrings[i]), Whitespace)

(***************************************************************************)
(* Properties of the auto-save (SpecAutoSave)                              *)
(***************************************************************************)

\* C27 (Bounded unsaved work): after any sequence of awaited set calls the
\* number of additions made since the last completed write of memory.json is
\* at most 49, because a save is triggered at every 50th addition; an
\* explicit save() brings it to 0.
C27_BoundedUnsaved ==
    /\ ts.unsaved <= SaveEvery - 1
    /\ ts.unsaved = 0 => disk = <<store>>
    /\ result = [op |-> "save"] => ts.unsaved = 0

\* the 50th addition has just written memory.json, without any explicit save
C27_Witness ==
    /\ result = [op |-> "set"]
    /\ stats.additions = SaveEvery
    /\ runs = SaveEvery
    /\ ts.unsaved = 0
    /\ disk = <<store>>

(***************************************************************************)
(* Properties of the entries (SpecEntries)                                 *)
(***************************************************************************)

\* C28 (No implicit eviction): once set(s, t, src, tgt) has completed,
\* get(s, src, tgt) keeps returning t (trimmed) after any sequence of get,
\* set, update, verify, delete and save operations applied to other source
\* texts or other language pairs; the entry disappears or changes only
\* through set, update or delete of s itself for that pair, or clear().
\* Source texts that differ in surrounding whitespace count as the same.
C28_NoImplicitEviction ==
    \A h \in hist :
        MemoryGet(store, h.text, h.sourceLang, h.targetLang).value = <<h.translation>>

(***************************************************************************)
(* Properties of the glossary file (SpecGlossaryFile)                      *)
(***************************************************************************)

\* C30 (Glossary persistence): after any completed sequence of add, update,
\* delete and clear, the term list stored in glossary.json equals the
\* in-memory term set, and a fresh GlossaryManager that loads that file
\* holds the same key-to-entry map (each entry under the key derived from
\* its own term and caseSensitive flag, at most one entry per key), so get
\* answers identically before and after reload.
C30_GlossaryPersistence ==
    /\ disk[1] = savedTerms(terms)
    /\ loadTerms(disk[1]) = terms
    /\ \A i \in 1..Len(terms) :
           terms[i].k = GlossaryGenerateKey(terms[i].v.term, terms[i].v.caseSensitive)
    /\ \A i, j \in 1..Len(terms) : terms[i].k = terms[j].k => i = j
    /\ \A term \in FileTerms \cup {trim(t) : t \in FileTerms} :
           \A caseSensitive \in BOOLEAN :
               GlossaryGet(loadTerms(disk[1]), term, caseSensitive)
               = GlossaryGet(terms, term, caseSensitive)

\* a glossary with a case-sensitive and a case-insensitive entry, one of
\* which has just been given a French translation by update
C30_Witness ==
    /\ result = [op |-> "update", value |-> TRUE]
    /\ Len(terms) = 2
    /\ terms[1].v.caseSensitive # terms[2].v.caseSensitive
    /\ \E i \in 1..2 : "fr" \in DOMAIN terms[i].v.translations
    /\ runs = MaxOps

(***************************************************************************)
(* Properties of initialize() (SpecInitialize)                             *)
(***************************************************************************)

Stores == {"glossary", "memory"}

\* C31: when initialize() finds a glossary.json or memory.json that exists
\* but cannot be parsed, it throws, and the file stays as it was: the store
\* never runs as an empty store whose save replaces the file
C31_LoadFailureSurfaced ==
    \A s \in Stores :
        (hist[s].status = "malformed" /\ pc[s] # "new")
            => (pc[s] = "failed" /\ disk[s] = hist[s])

(***************************************************************************)
(* Properties of parseAndExtract (SpecExtract)                             *)
(***************************************************************************)

Extracted == runs > 0 /\ ~result.threw
FileObject(file) == IF file = <<>> THEN <<>> ELSE file[1]
ExtractedNow == SeqToSet(parseFiles(req.code))
NewNow == ExtractedNow \ MapKeys(FileObject(hist))

\* C33: after parseAndExtract every key of the existing <language>.json is
\* still there with its previous value, every extracted string that was not
\* a key is one now with itself as value, and without a new string the file
\* is not written
C33_IncrementalExtract ==
    Extracted =>
        /\ \A key \in MapKeys(FileObject(hist)) :
               /\ MapHas(FileObject(disk), key)
               /\ MapGet(FileObject(disk), key) = MapGet(FileObject(hist), key)
        /\ \A str \in NewNow :
               /\ MapHas(FileObject(disk), str)
               /\ MapGet(FileObject(disk), str) = str
        /\ (NewNow = {}) => (~result.written /\ disk = hist)

(***************************************************************************)
(* Properties of the browser component (SpecPage)                          *)
(***************************************************************************)

ElementOf(body, nid) == body[CHOOSE n \in 1..Len(body) : body[n].nid = nid]
TextRecords == {cache[i].v : i \in {j \in 1..Len(cache) : cache[j].v.type = "text"}}
AttributeRecords ==
    {cache[i].v : i \in {j \in 1..Len(cache) : cache[j].v.type = "attribute"}}

\* what a tracked text node shows for a table: the translation of its
\* trimmed original between the original's leading and trailing
\* whitespace, or the original
ShownText(original, table) ==
    IF MapHas(table, trim(original))
    THEN leadingSpace(original) \o MapGet(table, trim(original)) \o trailingSpace(original)
    ELSE original

\* C34: every tracked text node shows its translation, with the original
\* whitespace around it, when the loaded table has an entry for its trimmed
\* original text, else its recorded original; and with the default
\* language's (empty) table loaded again every tracked text node and
\* attribute has the content it had when it entered the page
C34_PerKeyFallback ==
    /\ \A data \in TextRecords :
           ElementOf(wf, data.nid).text = ShownText(data.original, terms)
    /\ (terms = <<>>) =>
           /\ \A data \in TextRecords :
                  ElementOf(wf, data.nid).text = ElementOf(hist, data.nid).text
           /\ \A data \in AttributeRecords :
                  ElementOf(wf, data.nid).title = ElementOf(hist, data.nid).title

\* C40: once no fetch is in flight, the table applied to the page is the
\* one loaded for the language getCurrentLanguage() reports (the empty
\* table when that load failed), whatever the order in which the fetches
\* of overlapping language changes settled
C40_LanguageSwitchRace ==
    (ts = <<>>) =>
        /\ result.applied = opts.currentLang
        /\ terms \in {LocaleTable(opts.currentLang), <<>>}

(***************************************************************************)
(* Properties of the chunk loop (SpecChunkLoop)                            *)
(***************************************************************************)

Placed(str, chunks) ==
    \E c \in 1..Len(chunks) : \E n \in 1..Len(chunks[c]) : chunks[c][n] = str

\* C35: for every integer maxChunkSize, 0 and negative values included, the
\* chunk loop is left, and then every string of the work set is in some
\* chunk
C35_SplitTerminates ==
    /\ [](pc = "split" =>
            \A n \in 1..Len(ts.uniqueStrings) : Placed(ts.uniqueStrings[n], ts.chunks))
    /\ ((pc = "splitting") ~> (pc = "split"))

(***************************************************************************)
(* Properties of batchSet (SpecBatchSet)                                   *)
(***************************************************************************)

\* C39: during batchSet at most one write of memory.json is in flight, and
\* once none is in flight the file holds the snapshot of the save() that
\* was started last
C39_NoOverlappingWrites ==
    /\ Len(ts.inflight) <= 1
    /\ (ts.inflight = <<>> /\ ts.newest # <<>>) => disk = ts.newest

====
